---- MODULE Spec2Model ----
(***************************************************************************)
(* StockSimulate: contribution-based portfolio backtest.                   *)
(*                                                                         *)
(* The module models                                                       *)
(*   - the trading calendar (buildTradingSchedules),                       *)
(*   - the request schema (simulationRequestSchema),                       *)
(*   - the POST /api/simulations/run handler and the fetch stage of        *)
(*     runSimulation,                                                      *)
(*   - the day loop of runSimulation and the metrics of its result,        *)
(*   - the in-memory cache and the Yahoo data source (fetchWithRetry,      *)
(*     getHistoricalSeries),                                               *)
(*   - the GET /api/etfs handler,                                          *)
(*   - the state and the handlers of the SimulatorDashboard component.     *)
(*                                                                         *)
(* Numbers of the program are IEEE doubles; the model computes with exact  *)
(* rationals <<n, d>> (d > 0, lowest terms).  ISO dates "YYYY-MM-DD" are   *)
(* the integers YYYYMMDD, whose order is the order of localeCompare on     *)
(* well-formed ISO dates.                                                  *)
(***************************************************************************)
EXTENDS Integers, Sequences, FiniteSets, TLC

VARIABLES
  input,      \* argument of the pure function under test
  output,     \* its result, NotCalled before the call
  request,    \* the SimulationRequestInput handed to runSimulation
  pc,         \* position inside POST / runSimulation
  response,   \* the HTTP response of POST, or the outcome of a direct call
  pending,    \* tickers whose getHistoricalSeries promise has not settled
  fetchLog,   \* sequence of tickers getHistoricalSeries was called with
  historyMap, \* ticker -> the PricePoints getHistoricalSeries returned
  outcome,    \* how runSimulation's promise settled: <<>> while it has not
  env,        \* the caller and the market-data provider of this run
  tradingDays,
  contributionDays,
  rebalanceDays,
  index,      \* loop variable of the day loop
  holdings,   \* ticker -> shares
  cashValue,
  benchmarkShares,
  totalInvested,
  contributions,
  netFlow,
  rebalanced, \* whether rebalancePortfolio ran on the current day
  timeline,
  runNo,      \* how many times runSimulation has been started
  firstResult, \* result of the first completed run
  yahooPc,    \* position inside getHistoricalSeries / fetchWithRetry
  attempt,    \* loop variable of fetchWithRetry
  lastError,  \* fetchWithRetry's lastError, <<>> while undefined
  fetchCalls, \* what each call of fetch so far ended with
  memoryCache, \* key -> CacheEntry [value, expiresAt]
  now,        \* Date.now()
  cacheLog,   \* key -> the latest setCached call for it [at, ttlMs, value]
  etfPc,      \* position inside GET /api/etfs
  yahooMatches, \* GET /api/etfs: the items of the searches that returned
  searchLog,  \* what each call of searchSymbols so far ended with
  basePortfolio,      \* dashboard state: the PortfolioFormState of "my portfolio"
  compareTargets,     \* dashboard state: the list of CompareTargetState
  activeCompareIndex, \* dashboard state
  baseResult,         \* dashboard state: <<>> while null
  compareResults,     \* dashboard state
  errorMessage,       \* dashboard state: <<>> while null
  isRunning,          \* dashboard state
  rendered,           \* the state values the handlers of the last render closed over
  simulationCallCount, \* the requests sent to /api/simulations/run so far
  inFlight            \* the runSimulation calls waiting at Promise.all

harnessVars == <<input, output>>
routeVars == <<request, pc, response, pending, fetchLog, historyMap, outcome, env>>
engineVars == <<tradingDays, contributionDays, rebalanceDays, index, holdings,
                cashValue, benchmarkShares, totalInvested, contributions, netFlow,
                rebalanced, timeline, runNo, firstResult>>
sourceVars == <<yahooPc, attempt, lastError, fetchCalls, memoryCache, now, cacheLog>>
etfVars == <<etfPc, yahooMatches, searchLog>>
dashboardVars == <<basePortfolio, compareTargets, activeCompareIndex, baseResult, compareResults,
                   errorMessage, isRunning, rendered, simulationCallCount, inFlight>>
vars == <<dashboardVars, etfVars, sourceVars, input, output, request, pc, response, pending, fetchLog, historyMap, outcome, env,
          tradingDays, contributionDays, rebalanceDays, index, holdings,
          cashValue, benchmarkShares, totalInvested, contributions, netFlow,
          rebalanced, timeline, runNo, firstResult>>

----------------------------------------------------------------------------
(* Exact rational arithmetic                                               *)

RECURSIVE Gcd(_, _)
Gcd(a, b) == IF b = 0 THEN a ELSE Gcd(b, a % b)

Abs(n) == IF n < 0 THEN -n ELSE n

Norm(n, d) == LET g == Gcd(Abs(n), d) IN <<n \div g, d \div g>>

R(n) == <<n, 1>>

Zero == <<0, 1>>

One == <<1, 1>>

RAdd(a, b) ==
  LET g == Gcd(a[2], b[2])
  IN  Norm(a[1] * (b[2] \div g) + b[1] * (a[2] \div g), (a[2] \div g) * b[2])

RNeg(a) == <<-a[1], a[2]>>

RSub(a, b) == RAdd(a, RNeg(b))

RMul(a, b) ==
  LET g1 == Gcd(Abs(a[1]), b[2])
      g2 == Gcd(Abs(b[1]), a[2])
  IN  IF a[1] = 0 \/ b[1] = 0 THEN Zero
      ELSE <<(a[1] \div g1) * (b[1] \div g2), (a[2] \div g2) * (b[2] \div g1)>>

RInv(a) == IF a[1] < 0 THEN <<-a[2], -a[1]>> ELSE <<a[2], a[1]>>

RDiv(a, b) == RMul(a, RInv(b))

\* n1/d1 < n2/d2 for n1, n2 >= 0, by comparing the continued fractions
RECURSIVE PosLt(_, _, _, _)
PosLt(n1, d1, n2, d2) ==
  IF n1 \div d1 # n2 \div d2 THEN n1 \div d1 < n2 \div d2
  ELSE IF n2 % d2 = 0 THEN FALSE
  ELSE IF n1 % d1 = 0 THEN TRUE
  ELSE PosLt(d2, n2 % d2, d1, n1 % d1)

RLt(a, b) ==
  IF a[1] < 0 /\ b[1] >= 0 THEN TRUE
  ELSE IF a[1] >= 0 /\ b[1] < 0 THEN FALSE
  ELSE IF a[1] >= 0 THEN PosLt(a[1], a[2], b[1], b[2])
  ELSE PosLt(-b[1], b[2], -a[1], a[2])

RLe(a, b) == ~RLt(b, a)

RGt(a, b) == RLt(b, a)

RGe(a, b) == ~RLt(a, b)

RMax(a, b) == IF RLt(a, b) THEN b ELSE a

RMin(a, b) == IF RLt(b, a) THEN b ELSE a

RAbs(a) == <<Abs(a[1]), a[2]>>

Range(s) == {s[i] : i \in DOMAIN s}

RECURSIVE RSum(_)
RSum(s) == IF s = <<>> THEN Zero ELSE RAdd(s[1], RSum(Tail(s)))

----------------------------------------------------------------------------
(* Trading calendar: src/src/lib/calendar.ts                               *)

\* output before the call; <<value>> after it
NotCalled == <<>>

\* new Date(`${dateIso}T00:00:00Z`).getUTCFullYear()
getUTCFullYear(day) == day \div 10000

\* getUTCMonth(): 0 for January ... 11 for December
getUTCMonth(day) == ((day \div 100) % 100) - 1

sortIsoDates(dates) == SortSeq(dates, LAMBDA a, b : a < b)

isQuarterStartMonth(month) == month = 0 \/ month = 3 \/ month = 6 \/ month = 9

\* mutant of MonthKey: the key forgets the year
MonthKeyWithoutYear(day) == <<getUTCMonth(day)>>

\* `${parsed.getUTCFullYear()}-${parsed.getUTCMonth()}`; the initial "" is <<>>
MonthKey(day) == <<getUTCFullYear(day), getUTCMonth(day)>>

\* the loop of buildTradingSchedules over sorted[i..], with its three locals
RECURSIVE ScheduleLoop(_, _, _)
ScheduleLoop(sorted, i, acc) ==
  IF i > Len(sorted) THEN acc
  ELSE LET day == sorted[i]
           monthKey == MonthKey(day)
       IN  IF monthKey # acc.currentMonthKey
           THEN ScheduleLoop(sorted, i + 1,
                  [contributionDays |-> acc.contributionDays \cup {day},
                   rebalanceDays |->
                     IF isQuarterStartMonth(getUTCMonth(day))
                     THEN acc.rebalanceDays \cup {day}
                     ELSE acc.rebalanceDays,
                   currentMonthKey |-> monthKey])
           ELSE ScheduleLoop(sorted, i + 1, acc)

buildTradingSchedules(days) ==
  LET r == ScheduleLoop(sortIsoDates(days), 1,
             [contributionDays |-> {}, rebalanceDays |-> {}, currentMonthKey |-> <<>>])
  IN  [contributionDays |-> r.contributionDays, rebalanceDays |-> r.rebalanceDays]

----------------------------------------------------------------------------
(* Values of the variables a specification does not use                    *)

\* the data source before any call: an empty cache at time 0
EmptyMap == [key \in {} |-> <<>>]

SourceIdle ==
  /\ yahooPc = "idle"
  /\ attempt = 0
  /\ lastError = <<>>
  /\ fetchCalls = <<>>
  /\ memoryCache = EmptyMap
  /\ now = 0
  /\ cacheLog = EmptyMap

EtfIdle ==
  /\ etfPc = "idle"
  /\ yahooMatches = <<>>
  /\ searchLog = <<>>

\* the dashboard not mounted
DashboardIdle ==
  /\ basePortfolio = <<>>
  /\ compareTargets = <<>>
  /\ activeCompareIndex = 0
  /\ baseResult = <<>>
  /\ compareResults = <<>>
  /\ errorMessage = <<>>
  /\ isRunning = FALSE
  /\ rendered = <<>>
  /\ simulationCallCount = 0
  /\ inFlight = <<>>

HarnessIdle == input = <<>> /\ output = NotCalled

RouteIdle ==
  /\ request = <<>>
  /\ pc = "idle"
  /\ response = <<>>
  /\ pending = {}
  /\ fetchLog = <<>>
  /\ historyMap = <<>>
  /\ outcome = <<>>
  /\ env = <<>>

EngineIdle ==
  /\ tradingDays = <<>>
  /\ contributionDays = {}
  /\ rebalanceDays = {}
  /\ index = 0
  /\ holdings = <<>>
  /\ cashValue = Zero
  /\ benchmarkShares = Zero
  /\ totalInvested = Zero
  /\ contributions = Zero
  /\ netFlow = Zero
  /\ rebalanced = FALSE
  /\ timeline = <<>>
  /\ runNo = 0
  /\ firstResult = <<>>

BoundedSeq(S, n) == UNION {[1..k -> S] : k \in 0..n}

----------------------------------------------------------------------------
(* buildTradingSchedules applied to any list of trading dates              *)

MaxScheduleLen == 3

ScheduleDates == {20230103, 20240102, 20240103, 20240201, 20240301, 20240401, 20240402}

\* the list of the calendar test
TestTradingDays == <<20240102, 20240103, 20240201, 20240301, 20240401, 20240402>>

InitSchedule ==
  /\ input \in BoundedSeq(ScheduleDates, MaxScheduleLen) \cup {TestTradingDays}
  /\ output = NotCalled
  /\ RouteIdle
  /\ EngineIdle
  /\ SourceIdle
  /\ EtfIdle
  /\ DashboardIdle

CallBuildTradingSchedules ==
  /\ output = NotCalled
  /\ output' = <<buildTradingSchedules(input)>>
  /\ UNCHANGED <<dashboardVars, etfVars, sourceVars, input, routeVars, engineVars>>

NextSchedule == CallBuildTradingSchedules

SpecSchedule == InitSchedule /\ [][NextSchedule]_vars

\* C10: contribution days are exactly the earliest date of every year-month in the
\* list, rebalance days exactly the contribution days of January, April, July and
\* October; so rebalance days are contribution days, there is one contribution day
\* per year-month present, and the empty list gives two empty sets.
C10_ScheduleIsFirstDayOfMonth ==
  output # NotCalled =>
    LET days == Range(input)
        got == output[1]
        earliest == {d \in days : \A e \in days : (e \div 100 = d \div 100) => d <= e}
        quarterly == {d \in earliest : (d \div 100) % 100 \in {1, 4, 7, 10}}
    IN  /\ got.contributionDays = earliest
        /\ got.rebalanceDays = quarterly
        /\ got.rebalanceDays \subseteq got.contributionDays
        /\ Cardinality(got.contributionDays) = Cardinality({d \div 100 : d \in days})
        /\ (input = <<>> => got.contributionDays = {} /\ got.rebalanceDays = {})

\* the schedule of an unsorted list holding the same month of two years, a second
\* day of a month and a month that starts no quarter
C10_Witness ==
  /\ output # NotCalled
  /\ input = <<20240201, 20240102, 20230103>>
  /\ output[1].contributionDays = {20230103, 20240102, 20240201}
  /\ output[1].rebalanceDays = {20230103, 20240102}

----------------------------------------------------------------------------
(* Request schema: src/src/lib/schemas/simulation.ts                       *)
(*                                                                         *)
(* A string is the sequence of its characters.  A date field is the        *)
(* integer YYYYMMDD of a string that matches isoDateRegex and 0 for a      *)
(* string that does not.  A field with a default is <<>> when the body     *)
(* leaves it out and <<v>> when it gives v.  Required fields are present   *)
(* and of the right type.                                                  *)

Str3(a, b, c) == <<a, b, c>>

SPY == Str3("S", "P", "Y")

QQQ == Str3("Q", "Q", "Q")

LowerLetters ==
  <<"a", "b", "c", "d", "e", "f", "g", "h", "i", "j", "k", "l", "m", "n",
    "o", "p", "q", "r", "s", "t", "u", "v", "w", "x", "y", "z">>

UpperLetters ==
  <<"A", "B", "C", "D", "E", "F", "G", "H", "I", "J", "K", "L", "M", "N",
    "O", "P", "Q", "R", "S", "T", "U", "V", "W", "X", "Y", "Z">>

ToUpperChar(c) ==
  IF \E i \in DOMAIN LowerLetters : LowerLetters[i] = c
  THEN UpperLetters[CHOOSE i \in DOMAIN LowerLetters : LowerLetters[i] = c]
  ELSE c

toUpperCase(str) == [i \in DOMAIN str |-> ToUpperChar(str[i])]

RECURSIVE TrimStart(_)
TrimStart(str) ==
  IF str # <<>> /\ Head(str) = " " THEN TrimStart(Tail(str)) ELSE str

RECURSIVE TrimEnd(_)
TrimEnd(str) ==
  IF str # <<>> /\ str[Len(str)] = " " THEN TrimEnd(SubSeq(str, 1, Len(str) - 1)) ELSE str

Trim(str) == TrimEnd(TrimStart(str))

MinAllocations == 1

MaxAllocations == 10

MaxTickerLength == 10

DefaultMonthlySalary == 2500000

DefaultMinimumCashReserve == 500000

MaxTargetWeight == R(100)

MaxExpenseRatio == <<1, 20>>

MaxRiskFreeRate == <<1, 5>>

DefaultRiskFreeRate == <<1, 50>>

\* mutant of WeightSumTolerance: no tolerance around 0 and 100
NoWeightSumTolerance == Zero

\* the 0.05 of totalWeight <= 0.05 and of totalWeight > 100.05
WeightSumTolerance == <<1, 20>>

\* mutant of WeightSumTooSmall: a schema without the rule on the weight sum
WeightSumNeverTooSmall(totalWeight) == FALSE

\* totalWeight <= 0.05
WeightSumTooSmall(totalWeight) == RLe(totalWeight, WeightSumTolerance)

\* mutant of WeightSumTooBig: a tolerance of 0.5
WeightSumTooBigLoose(totalWeight) == RGt(totalWeight, RAdd(R(100), <<1, 2>>))

\* totalWeight > 100.05
WeightSumTooBig(totalWeight) == RGt(totalWeight, RAdd(R(100), WeightSumTolerance))

Issue(path, message) == [path |-> path, message |-> message]

\* z.string().trim().min(1).max(10)
TickerIssues(path, raw) ==
  LET t == Trim(raw)
  IN  (IF Len(t) < 1 THEN <<Issue(path, "too_small")>> ELSE <<>>)
      \o (IF Len(t) > MaxTickerLength THEN <<Issue(path, "too_big")>> ELSE <<>>)

\* z.number().min(lo).max(hi)
RangeIssues(path, v, lo, hi) ==
  (IF RLt(v, lo) THEN <<Issue(path, "too_small")>> ELSE <<>>)
  \o (IF RGt(v, hi) THEN <<Issue(path, "too_big")>> ELSE <<>>)

\* z.number().min(0)
MinIssues(path, v) == IF RLt(v, Zero) THEN <<Issue(path, "too_small")>> ELSE <<>>

\* z.enum / z.literal
EnumIssues(path, v, allowed) ==
  IF v \in allowed THEN <<>> ELSE <<Issue(path, "invalid_value")>>

WithDefault(field, default) == IF field = <<>> THEN default ELSE field[1]

allocationSchema(a, i) ==
  TickerIssues(<<"allocations", i, "ticker">>, a.ticker)
  \o RangeIssues(<<"allocations", i, "targetWeight">>, a.targetWeight, Zero, MaxTargetWeight)
  \o RangeIssues(<<"allocations", i, "expenseRatio">>, a.expenseRatio, Zero, MaxExpenseRatio)

RECURSIVE AllocationIssues(_, _)
AllocationIssues(allocations, i) ==
  IF i > Len(allocations) THEN <<>>
  ELSE allocationSchema(allocations[i], i) \o AllocationIssues(allocations, i + 1)

\* the value the object schema hands on: defaults filled in, strings trimmed
ParsedValue(body) ==
  [startDate |-> body.startDate,
   endDate |-> body.endDate,
   initialAmount |-> body.initialAmount,
   monthlySalary |-> WithDefault(body.monthlySalary, R(DefaultMonthlySalary)),
   monthlyContribution |-> body.monthlyContribution,
   minimumCashReserve |-> WithDefault(body.minimumCashReserve, R(DefaultMinimumCashReserve)),
   dividendPolicy |-> WithDefault(body.dividendPolicy, "reinvest_same_asset"),
   allocations |-> [i \in DOMAIN body.allocations |->
                      [body.allocations[i] EXCEPT !.ticker = Trim(@)]],
   rebalanceFrequency |-> WithDefault(body.rebalanceFrequency, "quarterly"),
   contributionRule |-> WithDefault(body.contributionRule, "first_trading_day"),
   benchmarkTicker |-> Trim(WithDefault(body.benchmarkTicker, SPY)),
   riskFreeRate |-> WithDefault(body.riskFreeRate, DefaultRiskFreeRate)]

\* the issues of z.object({...}), in the order of its keys
ObjectIssues(body) ==
  LET v == ParsedValue(body)
  IN  (IF body.startDate = 0 THEN <<Issue(<<"startDate">>, "startDate must be YYYY-MM-DD")>>
       ELSE <<>>)
      \o (IF body.endDate = 0 THEN <<Issue(<<"endDate">>, "endDate must be YYYY-MM-DD")>>
          ELSE <<>>)
      \o MinIssues(<<"initialAmount">>, v.initialAmount)
      \o MinIssues(<<"monthlySalary">>, v.monthlySalary)
      \o MinIssues(<<"monthlyContribution">>, v.monthlyContribution)
      \o MinIssues(<<"minimumCashReserve">>, v.minimumCashReserve)
      \o EnumIssues(<<"dividendPolicy">>, v.dividendPolicy, {"to_cash", "reinvest_same_asset"})
      \o (IF Len(body.allocations) < MinAllocations
          THEN <<Issue(<<"allocations">>, "too_small")>> ELSE <<>>)
      \o (IF Len(body.allocations) > MaxAllocations
          THEN <<Issue(<<"allocations">>, "too_big")>> ELSE <<>>)
      \o AllocationIssues(body.allocations, 1)
      \o EnumIssues(<<"rebalanceFrequency">>, v.rebalanceFrequency, {"quarterly"})
      \o EnumIssues(<<"contributionRule">>, v.contributionRule, {"first_trading_day"})
      \o TickerIssues(<<"benchmarkTicker">>, WithDefault(body.benchmarkTicker, SPY))
      \o RangeIssues(<<"riskFreeRate">>, v.riskFreeRate, Zero, MaxRiskFreeRate)

\* Number.isNaN(new Date(`${date}T00:00:00Z`).getTime())
IsNaNDate(date) ==
  \/ date = 0
  \/ (date \div 100) % 100 \notin 1..12
  \/ date % 100 \notin 1..31

TotalWeight(allocations) ==
  RSum([i \in DOMAIN allocations |-> allocations[i].targetWeight])

\* the issues added by .superRefine((value, context) => ...)
SuperRefineIssues(value) ==
  LET totalWeight == TotalWeight(value.allocations)
      uniqueTickerCount ==
        Cardinality({toUpperCase(value.allocations[i].ticker) : i \in DOMAIN value.allocations})
  IN  (IF IsNaNDate(value.startDate) \/ IsNaNDate(value.endDate)
          \/ value.startDate >= value.endDate
       THEN <<Issue(<<"endDate">>, "endDate must be after startDate")>> ELSE <<>>)
      \o (IF WeightSumTooSmall(totalWeight)
          THEN <<Issue(<<"allocations">>,
                       "Allocation weights must include at least one positive weight")>>
          ELSE <<>>)
      \o (IF WeightSumTooBig(totalWeight)
          THEN <<Issue(<<"allocations">>,
                       "Allocation weights must be less than or equal to 100%")>>
          ELSE <<>>)
      \o (IF uniqueTickerCount # Len(value.allocations)
          THEN <<Issue(<<"allocations">>, "Allocation tickers must be unique")>> ELSE <<>>)

\* simulationRequestSchema.safeParse(body).  A failed z.enum or z.literal aborts the
\* object schema and the refinement is not run; a failed min, max or regex does not,
\* and the refinement runs on the parsed value.
simulationRequestSchema(body) ==
  LET value == ParsedValue(body)
      objectIssues == ObjectIssues(body)
      aborted == \E i \in DOMAIN objectIssues : objectIssues[i].message = "invalid_value"
      issues == IF aborted THEN objectIssues
                ELSE objectIssues \o SuperRefineIssues(value)
  IN  [success |-> issues = <<>>, issues |-> issues, data |-> value]

----------------------------------------------------------------------------
(* simulationRequestSchema applied to request bodies                       *)

MaxSchemaAllocations == 2

Alloc(ticker, targetWeight, expenseRatio) ==
  [ticker |-> ticker, targetWeight |-> targetWeight, expenseRatio |-> expenseRatio]

\* the validPayload of the route test, without its allocations
BaseBody(allocations) ==
  [startDate |-> 20240102,
   endDate |-> 20240105,
   initialAmount |-> R(10000),
   monthlySalary |-> <<R(2500000)>>,
   monthlyContribution |-> R(300),
   minimumCashReserve |-> <<R(500)>>,
   dividendPolicy |-> <<"reinvest_same_asset">>,
   allocations |-> allocations,
   rebalanceFrequency |-> <<"quarterly">>,
   contributionRule |-> <<"first_trading_day">>,
   benchmarkTicker |-> <<SPY>>,
   riskFreeRate |-> <<DefaultRiskFreeRate>>]

TestAllocations == <<Alloc(SPY, R(50), <<9, 10000>>), Alloc(QQQ, R(50), <<1, 500>>)>>

SchemaTickers == {SPY, Str3("s", "p", "y"), <<" ", "S", "P", "Y">>, QQQ, <<>>}

\* 0, 0.03, 40, 50, 50.03, 60, 100 and the out-of-range -1 and 100.5
SchemaWeights ==
  {Zero, <<3, 100>>, R(40), R(50), <<5003, 100>>, R(60), R(100), R(-1), <<201, 2>>}

SmallAllocationLists ==
  BoundedSeq({Alloc(t, w, <<9, 10000>>) : t \in SchemaTickers, w \in SchemaWeights},
             MaxSchemaAllocations)

Letters == <<"A", "B", "C", "D", "E", "F", "G", "H", "I", "J", "K">>

\* n allocations with n different tickers and the same weight, n up to one more
\* than the schema allows
LargeAllocationLists ==
  {[i \in 1..n |-> Alloc(<<Letters[i]>>, w, Zero)] :
     n \in (MaxSchemaAllocations + 1)..(MaxAllocations + 1), w \in {Zero, R(5), R(10)}}

\* allocation lists with one field out of range
OddAllocationLists ==
  {<<Alloc(SPY, R(100), <<3, 50>>)>>,
   <<Alloc(SPY, R(100), <<-1, 100>>)>>,
   <<Alloc(SPY, R(100), MaxExpenseRatio)>>,
   <<Alloc(<<"A", "B", "C", "D", "E", "F", "G", "H", "I", "J", "K">>, R(100), Zero)>>,
   <<Alloc(<<"A", "B", "C", "D", "E", "F", "G", "H", "I", "J">>, R(100), Zero)>>}

\* one field of the body replaced
Replacements ==
  {[field |-> "startDate", value |-> v] : v \in {0, 20240105, 20240201, 20241345}}
  \cup {[field |-> "endDate", value |-> v] : v \in {0, 20240101, 20240102, 20240230}}
  \cup {[field |-> "initialAmount", value |-> v] : v \in {Zero, R(-1)}}
  \cup {[field |-> "monthlySalary", value |-> v] : v \in {<<>>, <<Zero>>, <<R(-1)>>}}
  \cup {[field |-> "monthlyContribution", value |-> v] : v \in {Zero, R(-1)}}
  \cup {[field |-> "minimumCashReserve", value |-> v] : v \in {<<>>, <<Zero>>, <<R(-1)>>}}
  \cup {[field |-> "dividendPolicy", value |-> v] : v \in {<<>>, <<"to_cash">>, <<"to_bonds">>}}
  \cup {[field |-> "rebalanceFrequency", value |-> v] : v \in {<<>>, <<"monthly">>}}
  \cup {[field |-> "contributionRule", value |-> v] : v \in {<<>>, <<"last_trading_day">>}}
  \cup {[field |-> "benchmarkTicker", value |-> v] : v \in {<<>>, <<QQQ>>, <<<<>>>>, <<<<" ">>>>}}
  \cup {[field |-> "riskFreeRate", value |-> v] :
          v \in {<<>>, <<Zero>>, <<MaxRiskFreeRate>>, <<<<1, 4>>>>, <<<<-1, 100>>>>}}

Replace(body, r) == [body EXCEPT ![r.field] = r.value]

SchemaBodies ==
  {BaseBody(a) : a \in SmallAllocationLists \cup LargeAllocationLists \cup OddAllocationLists}
  \cup {Replace(BaseBody(a), r) :
          a \in {TestAllocations, <<Alloc(SPY, <<5003, 100>>, Zero), Alloc(QQQ, <<5003, 100>>, Zero)>>},
          r \in Replacements}

InitSchema ==
  /\ input \in SchemaBodies
  /\ output = NotCalled
  /\ RouteIdle
  /\ EngineIdle
  /\ SourceIdle
  /\ EtfIdle
  /\ DashboardIdle

CallSimulationRequestSchema ==
  /\ output = NotCalled
  /\ output' = <<simulationRequestSchema(input)>>
  /\ UNCHANGED <<dashboardVars, etfVars, sourceVars, input, routeVars, engineVars>>

NextSchema == CallSimulationRequestSchema

SpecSchema == InitSchema /\ [][NextSchema]_vars

\* what the interface asks of every field but the weight sum: ranges, enumerations,
\* a date range, one to ten allocations, tickers that differ whatever their case
TickersDistinct(allocations) ==
  \A i, j \in DOMAIN allocations :
    i # j => toUpperCase(Trim(allocations[i].ticker)) # toUpperCase(Trim(allocations[j].ticker))

TickerOk(str) == Len(Trim(str)) >= 1 /\ Len(Trim(str)) <= 10

OtherwiseValid(body) ==
  /\ ~IsNaNDate(body.startDate) /\ ~IsNaNDate(body.endDate)
  /\ body.startDate < body.endDate
  /\ RGe(body.initialAmount, Zero)
  /\ body.monthlySalary # <<>> => RGe(body.monthlySalary[1], Zero)
  /\ RGe(body.monthlyContribution, Zero)
  /\ body.minimumCashReserve # <<>> => RGe(body.minimumCashReserve[1], Zero)
  /\ body.dividendPolicy # <<>> => body.dividendPolicy[1] \in {"to_cash", "reinvest_same_asset"}
  /\ body.rebalanceFrequency # <<>> => body.rebalanceFrequency[1] = "quarterly"
  /\ body.contributionRule # <<>> => body.contributionRule[1] = "first_trading_day"
  /\ body.benchmarkTicker # <<>> => TickerOk(body.benchmarkTicker[1])
  /\ body.riskFreeRate # <<>> =>
       RGe(body.riskFreeRate[1], Zero) /\ RLe(body.riskFreeRate[1], <<1, 5>>)
  /\ Len(body.allocations) \in 1..10
  /\ \A i \in DOMAIN body.allocations :
       /\ TickerOk(body.allocations[i].ticker)
       /\ RGe(body.allocations[i].targetWeight, Zero)
       /\ RLe(body.allocations[i].targetWeight, R(100))
       /\ RGe(body.allocations[i].expenseRatio, Zero)
       /\ RLe(body.allocations[i].expenseRatio, <<5, 100>>)
  /\ TickersDistinct(body.allocations)

WeightSum(body) == RSum([i \in DOMAIN body.allocations |-> body.allocations[i].targetWeight])

Messages(result) == {result.issues[i].message : i \in DOMAIN result.issues}

\* C5: a weight sum of 100.06 or of 110 is rejected, and on an otherwise valid
\* request the first issue reported is the one whose message says "less than or
\* equal to 100"; an otherwise valid request with a weight sum of 100 or of 80 is
\* accepted, its allocations unchanged (the other 20% are bought by nobody).
C5_WeightSumLimit ==
  output # NotCalled =>
    LET sum == WeightSum(input)
        result == output[1]
    IN  /\ sum \in {<<5003, 50>>, R(110)} => ~result.success
        /\ sum \in {<<5003, 50>>, R(110)} /\ OtherwiseValid(input) =>
             result.issues[1].message = "Allocation weights must be less than or equal to 100%"
        /\ sum \in {R(100), R(80)} /\ OtherwiseValid(input) =>
             /\ result.success
             /\ \A i \in DOMAIN input.allocations :
                  result.data.allocations[i].targetWeight = input.allocations[i].targetWeight

\* bodies with weight sums 100.06, 110, 100 and 80 have been parsed
C5_Witness ==
  /\ output # NotCalled
  /\ input = BaseBody(<<Alloc(SPY, <<5003, 100>>, <<9, 10000>>), Alloc(QQQ, <<5003, 100>>, <<9, 10000>>)>>)
  /\ ~output[1].success
  /\ Len(output[1].issues) = 1

\* C6 as stated: accepted requests have 1..10 allocations, distinct tickers and a
\* weight sum in (0, 100], and every otherwise valid request with a weight sum in
\* (0, 100] is accepted.
C6_AsStated ==
  output # NotCalled =>
    LET sum == WeightSum(input)
        result == output[1]
    IN  /\ result.success =>
             /\ Len(input.allocations) \in 1..10
             /\ TickersDistinct(input.allocations)
             /\ RGt(sum, Zero) /\ RLe(sum, R(100))
        /\ (RGt(sum, Zero) /\ RLe(sum, R(100)) /\ OtherwiseValid(input)) => result.success

\* C6, amended: accepted requests have 1..10 allocations, tickers that differ
\* whatever their case, and a weight sum in (0.05, 100.05]; every otherwise valid
\* request with a weight sum in (0.05, 100.05] is accepted.
C6_AcceptedRequests ==
  output # NotCalled =>
    LET sum == WeightSum(input)
        result == output[1]
    IN  /\ result.success =>
             /\ Len(input.allocations) \in 1..10
             /\ TickersDistinct(input.allocations)
             /\ RGt(sum, <<5, 100>>) /\ RLe(sum, <<10005, 100>>)
        /\ (RGt(sum, <<5, 100>>) /\ RLe(sum, <<10005, 100>>) /\ OtherwiseValid(input))
             => result.success

\* a request with a weight sum of 100.03 has been accepted
C6_Witness ==
  /\ output # NotCalled
  /\ WeightSum(input) = <<10003, 100>>
  /\ output[1].success

----------------------------------------------------------------------------
(* The simulation engine: src/unnamed/part_006, lines 329-864              *)
(*                                                                         *)
(* The argument q of the operators below maps every ticker of the run to  *)
(* its PricePoint of the current day, which is what closeMaps,             *)
(* adjustedMaps, dividendMaps and splitMaps give for that day.  index      *)
(* counts from 0 as in the code; the day is tradingDays[index + 1].        *)

\* mutant of computeDesiredStockBudget: the stock weight is ignored
StockBudgetWithoutWeight(portfolioValue, totalStockWeight, minimumCashReserve) ==
  IF RLe(portfolioValue, Zero) \/ RLe(totalStockWeight, Zero) THEN Zero
  ELSE RMax(Zero, RSub(portfolioValue, RMin(minimumCashReserve, portfolioValue)))

\* mutant of computeDesiredStockBudget: the cash floor is ignored
StockBudgetWithoutFloor(portfolioValue, totalStockWeight, minimumCashReserve) ==
  RMax(Zero, RMul(portfolioValue, totalStockWeight))

\* mutant of WEIGHT_DRIFT_TOLERANCE: 50% instead of 0.5%
WeightDriftToleranceLoose == <<1, 2>>

WEIGHT_DRIFT_TOLERANCE == <<1, 200>>

TRADING_DAYS_PER_YEAR == 252

MONTHLY_LIVING_COST == 1000000

intersectDates(dateLists) ==
  IF Len(dateLists) = 0 THEN <<>>
  ELSE SelectSeq(sortIsoDates(dateLists[1]),
                 LAMBDA date : \A k \in 2..Len(dateLists) : date \in Range(dateLists[k]))

normalizeAllocations(allocations) ==
  [i \in DOMAIN allocations |->
     [ticker |-> toUpperCase(allocations[i].ticker),
      weight |-> RDiv(allocations[i].targetWeight, R(100)),
      expenseRatio |-> allocations[i].expenseRatio]]

\* mutant of Allocations: allocations of weight 0 take part in the run
AllocationsUnfiltered(req) == normalizeAllocations(req.allocations)

\* normalizeAllocations(request.allocations).filter((a) => a.weight > 0)
Allocations(req) ==
  SelectSeq(normalizeAllocations(req.allocations), LAMBDA a : RGt(a.weight, Zero))

getTotalStockWeight(allocations) ==
  RSum([i \in DOMAIN allocations |-> allocations[i].weight])

computeDesiredStockBudget(portfolioValue, totalStockWeight, minimumCashReserve) ==
  IF RLe(portfolioValue, Zero) \/ RLe(totalStockWeight, Zero) THEN Zero
  ELSE LET cashFloor == RMin(minimumCashReserve, portfolioValue)
           desiredStock == RMul(portfolioValue, totalStockWeight)
           maxStockWithFloor == RMax(Zero, RSub(portfolioValue, cashFloor))
       IN  RMax(Zero, RMin(desiredStock, maxStockWithFloor))

\* mutant of InvestLoop: a leg without a price is paid for all the same
RECURSIVE InvestLoopPaying(_, _, _, _, _, _)
InvestLoopPaying(amount, allocations, i, hold, invested, q) ==
  IF i > Len(allocations) THEN [holdings |-> hold, invested |-> invested]
  ELSE LET allocation == allocations[i]
           price == q[allocation.ticker].close
           relativeWeight == RDiv(allocation.weight, getTotalStockWeight(allocations))
           allocationAmount == RMul(amount, relativeWeight)
       IN  InvestLoopPaying(amount, allocations, i + 1,
             IF RLe(price, Zero) THEN hold
             ELSE [hold EXCEPT ![allocation.ticker] = RAdd(@, RDiv(allocationAmount, price))],
             RAdd(invested, allocationAmount), q)

\* the loop of investByRelativeStockWeights from allocation i on
RECURSIVE InvestLoop(_, _, _, _, _, _)
InvestLoop(amount, allocations, i, hold, invested, q) ==
  IF i > Len(allocations) THEN [holdings |-> hold, invested |-> invested]
  ELSE LET allocation == allocations[i]
           price == q[allocation.ticker].close
           relativeWeight == RDiv(allocation.weight, getTotalStockWeight(allocations))
           allocationAmount == RMul(amount, relativeWeight)
       IN  IF RLe(price, Zero)
           THEN InvestLoop(amount, allocations, i + 1, hold, invested, q)
           ELSE InvestLoop(amount, allocations, i + 1,
                  [hold EXCEPT ![allocation.ticker] = RAdd(@, RDiv(allocationAmount, price))],
                  RAdd(invested, allocationAmount), q)

\* mutant of investByRelativeStockWeights: the day's split multiplies the shares bought
InvestAndSplit(amount, allocations, hold, q) ==
  IF RLe(amount, Zero) \/ RLe(getTotalStockWeight(allocations), Zero)
  THEN [holdings |-> hold, invested |-> Zero]
  ELSE LET bought == InvestLoop(amount, allocations, 1, hold, Zero, q)
       IN  [holdings |->
              [t \in DOMAIN hold |->
                 RAdd(hold[t],
                      RMul(RSub(bought.holdings[t], hold[t]),
                           IF RGt(q[t].splitRatio, Zero) THEN q[t].splitRatio ELSE One))],
            invested |-> bought.invested]

investByRelativeStockWeights(amount, allocations, hold, q) ==
  IF RLe(amount, Zero) THEN [holdings |-> hold, invested |-> Zero]
  ELSE IF RLe(getTotalStockWeight(allocations), Zero) THEN [holdings |-> hold, invested |-> Zero]
  ELSE InvestLoop(amount, allocations, 1, hold, Zero, q)

RECURSIVE applyDailyExpenseDrag(_, _, _)
applyDailyExpenseDrag(allocations, i, hold) ==
  IF i > Len(allocations) THEN hold
  ELSE LET feeDrag == RDiv(allocations[i].expenseRatio, R(TRADING_DAYS_PER_YEAR))
       IN  applyDailyExpenseDrag(allocations, i + 1,
             [hold EXCEPT ![allocations[i].ticker] = RMul(@, RSub(One, feeDrag))])

RECURSIVE applySplitEvents(_, _, _, _)
applySplitEvents(allocations, i, hold, q) ==
  IF i > Len(allocations) THEN hold
  ELSE LET ratio == q[allocations[i].ticker].splitRatio
       IN  IF RLe(ratio, Zero) \/ ratio = One
           THEN applySplitEvents(allocations, i + 1, hold, q)
           ELSE applySplitEvents(allocations, i + 1,
                  [hold EXCEPT ![allocations[i].ticker] = RMul(@, ratio)], q)

\* every dividend to the cash, whatever the policy
DividendsAlwaysToCash(allocations, i, hold, nextCash, dividendPolicy, q) ==
  [holdings |-> hold,
   cashValue |->
     RAdd(nextCash,
          RSum([k \in DOMAIN allocations |->
                  IF /\ RGt(q[allocations[k].ticker].dividendPerShare, Zero)
                     /\ RGt(hold[allocations[k].ticker], Zero)
                  THEN RMul(hold[allocations[k].ticker],
                            q[allocations[k].ticker].dividendPerShare)
                  ELSE Zero]))]

RECURSIVE applyDividendEvents(_, _, _, _, _, _)
applyDividendEvents(allocations, i, hold, nextCash, dividendPolicy, q) ==
  IF i > Len(allocations) THEN [holdings |-> hold, cashValue |-> nextCash]
  ELSE LET ticker == allocations[i].ticker
           perShare == q[ticker].dividendPerShare
           shares == hold[ticker]
           payout == RMul(shares, perShare)
           price == q[ticker].close
       IN  IF RLe(perShare, Zero) \/ RLe(shares, Zero) \/ RLe(payout, Zero)
           THEN applyDividendEvents(allocations, i + 1, hold, nextCash, dividendPolicy, q)
           ELSE IF dividendPolicy = "to_cash"
           THEN applyDividendEvents(allocations, i + 1, hold, RAdd(nextCash, payout),
                                    dividendPolicy, q)
           ELSE IF RGt(price, Zero)
           THEN applyDividendEvents(allocations, i + 1,
                  [hold EXCEPT ![ticker] = RAdd(shares, RDiv(payout, price))],
                  nextCash, dividendPolicy, q)
           ELSE applyDividendEvents(allocations, i + 1, hold, RAdd(nextCash, payout),
                                    dividendPolicy, q)

computeStockValue(allocations, hold, q) ==
  RSum([i \in DOMAIN allocations |->
          RMul(hold[allocations[i].ticker], q[allocations[i].ticker].close)])

computePortfolioValue(stockValue, cash) == RAdd(stockValue, cash)

\* getCurrentWeights(...)[allocation.ticker]
CurrentWeight(allocation, hold, q, portfolioValue) ==
  LET positionValue == RMul(hold[allocation.ticker], q[allocation.ticker].close)
  IN  IF RGt(portfolioValue, Zero) THEN RDiv(positionValue, portfolioValue) ELSE Zero

\* mutant of shouldRebalance: a drift of exactly the tolerance triggers
shouldRebalanceAtTolerance(allocations, hold, q, cash, minimumCashReserve) ==
  LET stockValue == computeStockValue(allocations, hold, q)
      portfolioValue == computePortfolioValue(stockValue, cash)
      totalStockWeight == getTotalStockWeight(allocations)
      targetStockBudget ==
        computeDesiredStockBudget(portfolioValue, totalStockWeight, minimumCashReserve)
      targetCashWeight == RDiv(RSub(portfolioValue, targetStockBudget), portfolioValue)
      currentCashWeight == RDiv(cash, portfolioValue)
  IN  IF RLe(portfolioValue, Zero) THEN FALSE
      ELSE IF RGe(RAbs(RSub(currentCashWeight, targetCashWeight)), WEIGHT_DRIFT_TOLERANCE)
      THEN TRUE
      ELSE IF RLe(totalStockWeight, Zero) \/ RLe(targetStockBudget, Zero) THEN FALSE
      ELSE \E i \in DOMAIN allocations :
             LET relativeWeight == RDiv(allocations[i].weight, totalStockWeight)
                 targetWeight ==
                   RDiv(RMul(targetStockBudget, relativeWeight), portfolioValue)
             IN  RGe(RAbs(RSub(CurrentWeight(allocations[i], hold, q, portfolioValue),
                               targetWeight)),
                     WEIGHT_DRIFT_TOLERANCE)

shouldRebalance(allocations, hold, q, cash, minimumCashReserve) ==
  LET stockValue == computeStockValue(allocations, hold, q)
      portfolioValue == computePortfolioValue(stockValue, cash)
      totalStockWeight == getTotalStockWeight(allocations)
      targetStockBudget ==
        computeDesiredStockBudget(portfolioValue, totalStockWeight, minimumCashReserve)
      targetCashWeight == RDiv(RSub(portfolioValue, targetStockBudget), portfolioValue)
      currentCashWeight == RDiv(cash, portfolioValue)
  IN  IF RLe(portfolioValue, Zero) THEN FALSE
      ELSE IF RGt(RAbs(RSub(currentCashWeight, targetCashWeight)), WEIGHT_DRIFT_TOLERANCE)
      THEN TRUE
      ELSE IF RLe(totalStockWeight, Zero) \/ RLe(targetStockBudget, Zero) THEN FALSE
      ELSE \E i \in DOMAIN allocations :
             LET relativeWeight == RDiv(allocations[i].weight, totalStockWeight)
                 targetWeight ==
                   RDiv(RMul(targetStockBudget, relativeWeight), portfolioValue)
             IN  RGt(RAbs(RSub(CurrentWeight(allocations[i], hold, q, portfolioValue),
                               targetWeight)),
                     WEIGHT_DRIFT_TOLERANCE)

\* the re-target loop of rebalancePortfolio from allocation i on
RECURSIVE RetargetLoop(_, _, _, _, _, _)
RetargetLoop(allocations, i, hold, targetStockValue, targetStockBudget, q) ==
  IF i > Len(allocations) THEN [holdings |-> hold, targetStockValue |-> targetStockValue]
  ELSE LET price == q[allocations[i].ticker].close
           relativeWeight == RDiv(allocations[i].weight, getTotalStockWeight(allocations))
           targetValue == RMul(targetStockBudget, relativeWeight)
       IN  IF RLe(price, Zero)
           THEN RetargetLoop(allocations, i + 1, hold, targetStockValue, targetStockBudget, q)
           ELSE RetargetLoop(allocations, i + 1,
                  [hold EXCEPT ![allocations[i].ticker] = RDiv(targetValue, price)],
                  RAdd(targetStockValue, targetValue), targetStockBudget, q)

\* mutant of rebalancePortfolio: nothing is traded
rebalancePortfolioSkipped(allocations, hold, q, cash, minimumCashReserve) ==
  [holdings |-> hold, cashValue |-> cash]

rebalancePortfolio(allocations, hold, q, cash, minimumCashReserve) ==
  LET stockValue == computeStockValue(allocations, hold, q)
      portfolioValue == computePortfolioValue(stockValue, cash)
      totalStockWeight == getTotalStockWeight(allocations)
      targetStockBudget ==
        computeDesiredStockBudget(portfolioValue, totalStockWeight, minimumCashReserve)
      retarget == RetargetLoop(allocations, 1, hold, Zero, targetStockBudget, q)
  IN  IF RLe(portfolioValue, Zero) THEN [holdings |-> hold, cashValue |-> cash]
      ELSE IF RLe(targetStockBudget, Zero) \/ RLe(totalStockWeight, Zero)
      THEN [holdings |-> [t \in DOMAIN hold |->
                            IF \E i \in DOMAIN allocations : allocations[i].ticker = t
                            THEN Zero ELSE hold[t]],
            cashValue |-> portfolioValue]
      ELSE [holdings |-> retarget.holdings,
            cashValue |-> RMax(Zero, RSub(portfolioValue, retarget.targetStockValue))]

----------------------------------------------------------------------------
(* The in-memory cache: getCached, setCached, clearExpiredCache            *)

Digit(n) == <<"0", "1", "2", "3", "4", "5", "6", "7", "8", "9">>[(n % 10) + 1]

\* the string "YYYY-MM-DD" of a date, one character per element
IsoDate(date) ==
  <<Digit(date \div 10000000), Digit(date \div 1000000), Digit(date \div 100000),
    Digit(date \div 10000), "-", Digit(date \div 1000), Digit(date \div 100), "-",
    Digit(date \div 10), Digit(date)>>

\* mutant of buildCacheKey: the key names the ticker only
CacheKeyWithoutDates(ticker, startDate, endDate) ==
  <<"y", "a", "h", "o", "o", ":">> \o ticker

\* `yahoo:${ticker}:${startDate}:${endDate}`
buildCacheKey(ticker, startDate, endDate) ==
  <<"y", "a", "h", "o", "o", ":">> \o ticker \o <<":">> \o IsoDate(startDate)
    \o <<":">> \o IsoDate(endDate)

\* mutant of Expired: an entry lives through the instant of its expiry
ExpiredLate(entry, time) == entry.expiresAt < time

\* entry.expiresAt <= Date.now()
Expired(entry, time) == entry.expiresAt <= time

Without(cache, keys) == [key \in DOMAIN cache \ keys |-> cache[key]]

With(cache, key, entry) ==
  [k \in DOMAIN cache \cup {key} |-> IF k = key THEN entry ELSE cache[k]]

\* the cache after getCached(key) and what it returns: <<>> for undefined
getCached(cache, key, time) ==
  IF key \notin DOMAIN cache THEN [cache |-> cache, value |-> <<>>]
  ELSE IF Expired(cache[key], time)
       THEN [cache |-> Without(cache, {key}), value |-> <<>>]
       ELSE [cache |-> cache, value |-> <<cache[key].value>>]

setCached(cache, key, value, ttlMs, time) ==
  With(cache, key, [value |-> value, expiresAt |-> time + ttlMs])

clearExpiredCache(cache, time) ==
  Without(cache, {key \in DOMAIN cache : Expired(cache[key], time)})

\* mutant of DEFAULT_CACHE_TTL_MS: series are kept for 12 hours
TtlOfTwelveHours == 12 * 60 * 60 * 1000

DEFAULT_CACHE_TTL_MS == 24 * 60 * 60 * 1000

----------------------------------------------------------------------------
(* POST /api/simulations/run (src/unnamed/part_001) and runSimulation      *)
(* (src/unnamed/part_006, lines 634-864) as a state machine.               *)
(*                                                                         *)
(* pc names the statement that runs next.  env describes what surrounds    *)
(* the run: who calls runSimulation, how getHistoricalSeries may fail,     *)
(* and which series the provider holds for each ticker.                    *)

RECURSIVE Unique(_)
\* [...new Set(list)]: first occurrences, in order
Unique(list) ==
  IF list = <<>> THEN <<>>
  ELSE LET rest == Unique(SubSeq(list, 1, Len(list) - 1))
           last == list[Len(list)]
       IN  IF last \in Range(rest) THEN rest ELSE Append(rest, last)

\* mutant of Tickers: a ticker is fetched as often as it is named
TickersRepeated(req) ==
  LET allocations == Allocations(req)
  IN  Append([i \in DOMAIN allocations |-> allocations[i].ticker],
             toUpperCase(req.benchmarkTicker))

\* the tickers runSimulation fetches
Tickers(req) ==
  LET allocations == Allocations(req)
  IN  Unique(Append([i \in DOMAIN allocations |-> allocations[i].ticker],
                    toUpperCase(req.benchmarkTicker)))

Thrown(class, message) == <<[ok |-> FALSE, class |-> class, message |-> message]>>

Returned(result) == <<[ok |-> TRUE, result |-> result]>>

ConfigurationMessage == "At least one allocation weight must be greater than 0"

InsufficientMessage == "Insufficient overlapping trading days for selected ETFs and benchmark"

\* NextResponse.json(body, {status})
Json(status, error, details, result) ==
  <<[status |-> status, error |-> error, details |-> details, result |-> result]>>

\* mutant of ZodErrorResponse: a ZodError handled like any other error
ZodErrorAsServerError(issues) == Json(500, "Invalid simulation request", <<>>, <<>>)

\* POST, lines 15-25
ZodErrorResponse(issues) == Json(400, "Invalid simulation request", issues, <<>>)

\* POST, lines 27-36
YahooDataErrorResponse ==
  Json(502, "Failed to fetch market data from Yahoo Finance. Please try again.", <<>>, <<>>)

\* POST, lines 38-47
ErrorResponse(message) == Json(500, message, <<>>, <<>>)

\* POST, lines 8-25: request.json(), simulationRequestSchema.parse, and the answer to
\* a body that is no JSON or fails the schema
PostReceive ==
  /\ pc = "post"
  /\ IF ~input.json
     THEN /\ response' = ErrorResponse("Unexpected token")
          /\ pc' = "responded"
          /\ UNCHANGED request
     ELSE LET parsed == simulationRequestSchema(input.body)
          IN  IF parsed.success
              THEN /\ request' = parsed.data
                   /\ pc' = "run"
                   /\ UNCHANGED response
              ELSE /\ response' = ZodErrorResponse(parsed.issues)
                   /\ pc' = "responded"
                   /\ UNCHANGED request
  /\ UNCHANGED <<dashboardVars, etfVars, sourceVars, input, output, pending, fetchLog, historyMap, outcome, env, engineVars>>

\* the cache key of getHistoricalSeries(ticker, request.startDate, request.endDate)
KeyOf(req, ticker) == buildCacheKey(toUpperCase(Trim(ticker)), req.startDate, req.endDate)

KeysOf(req) == [i \in DOMAIN Tickers(req) |-> KeyOf(req, Tickers(req)[i])]

\* the cache after getCached has been called for each key in turn
RECURSIVE LookUp(_, _, _)
LookUp(cache, keys, time) ==
  IF keys = <<>> THEN cache
  ELSE LookUp(getCached(cache, Head(keys), time).cache, Tail(keys), time)

\* runSimulation, lines 634-650: the configuration check, then one
\* getHistoricalSeries call per ticker, all issued before the first one settles; a
\* call that finds its series in the cache returns it without a request
RunStart ==
  /\ pc = "run"
  /\ runNo' = runNo + 1
  /\ IF Len(Allocations(request)) = 0
     THEN /\ outcome' = Thrown("Error", ConfigurationMessage)
          /\ pc' = "settled"
          /\ UNCHANGED <<dashboardVars, etfVars, pending, fetchLog, historyMap, memoryCache>>
     ELSE LET hits == {ticker \in Range(Tickers(request)) :
                          getCached(memoryCache, KeyOf(request, ticker), now).value # <<>>}
          IN  /\ fetchLog' = fetchLog \o Tickers(request)
              /\ memoryCache' = LookUp(memoryCache, KeysOf(request), now)
              /\ historyMap' = [ticker \in hits |->
                                  memoryCache[KeyOf(request, ticker)].value]
              /\ pending' = Range(Tickers(request)) \ hits
              /\ outcome' = <<>>
              /\ pc' = "fetch"
  /\ UNCHANGED <<dashboardVars, etfVars, yahooPc, attempt, lastError, fetchCalls, now, cacheLog, input, output, request, response, env, tradingDays, contributionDays,
                 rebalanceDays, index, holdings, cashValue, benchmarkShares,
                 totalInvested, contributions, netFlow, rebalanced, timeline, firstResult>>

\* getHistoricalSeries(ticker) stores the series of the ticker in the cache and
\* resolves with it
FetchResolve(ticker) ==
  /\ ticker \in pending
  /\ pending' = pending \ {ticker}
  /\ memoryCache' = setCached(memoryCache, KeyOf(request, ticker), env.market[ticker],
                              DEFAULT_CACHE_TTL_MS, now)
  /\ cacheLog' = With(cacheLog, KeyOf(request, ticker),
                      [at |-> now, ttlMs |-> DEFAULT_CACHE_TTL_MS,
                       value |-> env.market[ticker]])
  /\ IF pc = "fetch"
     THEN historyMap' = historyMap @@ (ticker :> env.market[ticker])
     ELSE UNCHANGED historyMap
  /\ UNCHANGED <<dashboardVars, etfVars, yahooPc, attempt, lastError, fetchCalls, now, input, output, request, pc, response, fetchLog, outcome, env, engineVars>>

\* getHistoricalSeries(ticker) rejects: with a YahooDataError (lines 61, 75, 197, 217,
\* 225, 258) or with the SyntaxError of response.json() (line 211).  Promise.all
\* rejects with the first rejection; later ones are ignored.
FetchReject(ticker) ==
  /\ ticker \in pending
  /\ pending' = pending \ {ticker}
  /\ IF pc = "fetch"
     THEN \E class \in env.failures :
            /\ outcome' = Thrown(class, "upstream failure")
            /\ pc' = "settled"
     ELSE /\ env.failures # {}
          /\ UNCHANGED <<dashboardVars, etfVars, outcome, pc>>
  /\ UNCHANGED <<dashboardVars, etfVars, sourceVars, input, output, request, response, fetchLog, historyMap, env, engineVars>>

\* toCloseMap, toAdjustedMap, toDividendMap, toSplitMap followed by .get(day): of
\* the points with that date, the last one
MapGet(points, day) ==
  LET hits == {i \in DOMAIN points : points[i].date = day}
  IN  points[CHOOSE i \in hits : \A j \in hits : j <= i]

\* mutant of NewTimeline: the timeline of the previous run is kept
KeptTimeline == timeline

\* line 699
NewTimeline == <<>>

Dates(points) == [i \in DOMAIN points |-> points[i].date]

\* runSimulation, lines 652-699: the trading days, the schedules, the fresh state
Load ==
  /\ pc = "fetch"
  /\ pending = {}
  /\ LET allocations == Allocations(request)
         relevantDateLists ==
           Append([i \in DOMAIN allocations |-> Dates(historyMap[allocations[i].ticker])],
                  Dates(historyMap[toUpperCase(request.benchmarkTicker)]))
         days == intersectDates(relevantDateLists)
         schedules == buildTradingSchedules(days)
     IN  IF Len(days) < 2
         THEN /\ outcome' = Thrown("Error", InsufficientMessage)
              /\ pc' = "settled"
              /\ UNCHANGED <<dashboardVars, etfVars, sourceVars, tradingDays, contributionDays, rebalanceDays, index,
                             holdings, cashValue, benchmarkShares, totalInvested,
                             contributions, netFlow, rebalanced, timeline>>
         ELSE /\ tradingDays' = days
              /\ contributionDays' = schedules.contributionDays
              /\ rebalanceDays' = schedules.rebalanceDays
              /\ holdings' = [t \in {allocations[i].ticker : i \in DOMAIN allocations} |-> Zero]
              /\ benchmarkShares' = Zero
              /\ totalInvested' = Zero
              /\ contributions' = Zero
              /\ cashValue' = Zero
              /\ timeline' = NewTimeline
              /\ index' = 0
              /\ netFlow' = Zero
              /\ rebalanced' = FALSE
              /\ pc' = "splits"
              /\ UNCHANGED outcome
  /\ UNCHANGED <<dashboardVars, etfVars, sourceVars, input, output, request, response, pending, fetchLog, historyMap, env,
                 runNo, firstResult>>

Day == tradingDays[index + 1]

\* the PricePoint of every ticker on the day the loop is at
Quote == [t \in DOMAIN historyMap |-> MapGet(historyMap[t], Day)]

\* the close in the place of the adjusted close
BenchmarkClose == Quote[toUpperCase(request.benchmarkTicker)].close

BenchmarkPrice == Quote[toUpperCase(request.benchmarkTicker)].adjustedClose

\* line 703 and line 705
Splits ==
  /\ pc = "splits"
  /\ netFlow' = Zero
  /\ holdings' = applySplitEvents(Allocations(request), 1, holdings, Quote)
  /\ pc' = "dividends"
  /\ UNCHANGED <<dashboardVars, etfVars, sourceVars, harnessVars, request, response, pending, fetchLog, historyMap, outcome, env,
                 tradingDays, contributionDays, rebalanceDays, index, cashValue,
                 benchmarkShares, totalInvested, contributions, rebalanced, timeline,
                 runNo, firstResult>>

\* lines 706-714
Dividends ==
  /\ pc = "dividends"
  /\ LET r == applyDividendEvents(Allocations(request), 1, holdings, cashValue,
                                  request.dividendPolicy, Quote)
     IN  /\ holdings' = r.holdings
         /\ cashValue' = r.cashValue
  /\ pc' = "initial"
  /\ UNCHANGED <<dashboardVars, etfVars, sourceVars, harnessVars, request, response, pending, fetchLog, historyMap, outcome, env,
                 tradingDays, contributionDays, rebalanceDays, index,
                 benchmarkShares, totalInvested, contributions, netFlow, rebalanced,
                 timeline, runNo, firstResult>>

\* lines 716-740
InitialInvestment ==
  /\ pc = "initial"
  /\ IF index = 0 /\ RGt(request.initialAmount, Zero)
     THEN LET cash1 == RAdd(cashValue, request.initialAmount)
              initialStockBudget ==
                computeDesiredStockBudget(cash1, getTotalStockWeight(Allocations(request)),
                                          request.minimumCashReserve)
              spent == investByRelativeStockWeights(initialStockBudget, Allocations(request),
                                                    holdings, Quote)
          IN  /\ totalInvested' = RAdd(totalInvested, request.initialAmount)
              /\ netFlow' = RAdd(netFlow, request.initialAmount)
              /\ holdings' = spent.holdings
              /\ cashValue' = RSub(cash1, spent.invested)
              /\ benchmarkShares' =
                   IF RGt(BenchmarkPrice, Zero)
                   THEN RAdd(benchmarkShares, RDiv(request.initialAmount, BenchmarkPrice))
                   ELSE benchmarkShares
     ELSE UNCHANGED <<dashboardVars, etfVars, sourceVars, totalInvested, netFlow, holdings, cashValue, benchmarkShares>>
  /\ pc' = "contribution"
  /\ UNCHANGED <<dashboardVars, etfVars, sourceVars, harnessVars, request, response, pending, fetchLog, historyMap, outcome, env,
                 tradingDays, contributionDays, rebalanceDays, index, contributions,
                 rebalanced, timeline, runNo, firstResult>>

\* lines 742-769
Contribution ==
  /\ pc = "contribution"
  /\ IF Day \in contributionDays
     THEN LET salaryNet == RMax(Zero, RSub(request.monthlySalary, R(MONTHLY_LIVING_COST)))
              paid == RGt(salaryNet, Zero)
              cash1 == IF paid THEN RAdd(cashValue, salaryNet) ELSE cashValue
              investable == RMax(Zero, RSub(cash1, request.minimumCashReserve))
              buys == RGt(request.monthlyContribution, Zero) /\ RGt(investable, Zero)
              actualContribution == RMin(request.monthlyContribution, investable)
              spent == investByRelativeStockWeights(actualContribution, Allocations(request),
                                                    holdings, Quote)
          IN  /\ totalInvested' = IF paid THEN RAdd(totalInvested, salaryNet) ELSE totalInvested
              /\ contributions' = IF paid THEN RAdd(contributions, salaryNet) ELSE contributions
              /\ netFlow' = IF paid THEN RAdd(netFlow, salaryNet) ELSE netFlow
              /\ benchmarkShares' =
                   IF paid /\ RGt(BenchmarkPrice, Zero)
                   THEN RAdd(benchmarkShares, RDiv(salaryNet, BenchmarkPrice))
                   ELSE benchmarkShares
              /\ holdings' = IF buys THEN spent.holdings ELSE holdings
              /\ cashValue' = IF buys THEN RSub(cash1, spent.invested) ELSE cash1
     ELSE UNCHANGED <<dashboardVars, etfVars, sourceVars, totalInvested, contributions, netFlow, benchmarkShares, holdings,
                      cashValue>>
  /\ pc' = "drag"
  /\ UNCHANGED <<dashboardVars, etfVars, sourceVars, harnessVars, request, response, pending, fetchLog, historyMap, outcome, env,
                 tradingDays, contributionDays, rebalanceDays, index, Quote, rebalanced,
                 timeline, runNo, firstResult>>

\* line 771
ExpenseDrag ==
  /\ pc = "drag"
  /\ holdings' = applyDailyExpenseDrag(Allocations(request), 1, holdings)
  /\ pc' = "rebalance"
  /\ UNCHANGED <<dashboardVars, etfVars, sourceVars, harnessVars, request, response, pending, fetchLog, historyMap, outcome, env,
                 tradingDays, contributionDays, rebalanceDays, index, cashValue,
                 benchmarkShares, totalInvested, contributions, netFlow, rebalanced,
                 timeline, runNo, firstResult>>

\* lines 773-793
Rebalance ==
  /\ pc = "rebalance"
  /\ IF /\ index > 0
        /\ Day \in rebalanceDays
        /\ shouldRebalance(Allocations(request), holdings, Quote, cashValue,
                           request.minimumCashReserve)
     THEN LET r == rebalancePortfolio(Allocations(request), holdings, Quote, cashValue,
                                      request.minimumCashReserve)
          IN  /\ holdings' = r.holdings
              /\ cashValue' = r.cashValue
              /\ rebalanced' = TRUE
     ELSE /\ rebalanced' = FALSE
          /\ UNCHANGED <<dashboardVars, etfVars, sourceVars, holdings, cashValue>>
  /\ pc' = "record"
  /\ UNCHANGED <<dashboardVars, etfVars, sourceVars, harnessVars, request, response, pending, fetchLog, historyMap, outcome, env,
                 tradingDays, contributionDays, rebalanceDays, index,
                 benchmarkShares, totalInvested, contributions, netFlow, timeline,
                 runNo, firstResult>>

\* the TimelinePoint of lines 795-808
\* mutant of Point: the benchmark is valued at its close
PointValuedAtClose ==
  LET stockValue == computeStockValue(Allocations(request), holdings, Quote)
  IN  [date |-> Day,
       stockValue |-> stockValue,
       cashValue |-> cashValue,
       portfolioValue |-> computePortfolioValue(stockValue, cashValue),
       benchmarkValue |->
         RMul(benchmarkShares, Quote[toUpperCase(request.benchmarkTicker)].close),
       investedCapital |-> totalInvested,
       netFlow |-> netFlow]

Point ==
  LET stockValue == computeStockValue(Allocations(request), holdings, Quote)
  IN  [date |-> Day,
       stockValue |-> stockValue,
       cashValue |-> cashValue,
       portfolioValue |-> computePortfolioValue(stockValue, cashValue),
       benchmarkValue |-> RMul(benchmarkShares, BenchmarkPrice),
       investedCapital |-> totalInvested,
       netFlow |-> netFlow]

\* lines 795-809 and the loop header of line 701
Record ==
  /\ pc = "record"
  /\ timeline' = Append(timeline, Point)
  /\ index' = index + 1
  /\ IF index + 1 < Len(tradingDays)
     THEN pc' = "splits"
     ELSE pc' = "result"
  /\ UNCHANGED <<dashboardVars, etfVars, sourceVars, harnessVars, request, response, pending, fetchLog, historyMap, outcome, env,
                 tradingDays, contributionDays, rebalanceDays, holdings, cashValue,
                 benchmarkShares, totalInvested, contributions, netFlow, rebalanced,
                 runNo, firstResult>>

\* calculateDrawdownSeries (src/src/lib/calendar.ts, lines 119-131) up to values[i]
RECURSIVE Peak(_, _)
Peak(values, i) == IF i = 1 THEN values[1] ELSE RMax(Peak(values, i - 1), values[i])

calculateDrawdownSeries(values) ==
  [i \in DOMAIN values |->
     IF Peak(values, i) = Zero THEN Zero ELSE RSub(RDiv(values[i], Peak(values, i)), One)]

\* the loop of calculateMaxDrawdown (src/src/lib/calendar.ts, lines 102-116) from
\* values[i] on
RECURSIVE MaxDrawdownLoop(_, _, _, _)
MaxDrawdownLoop(values, i, peak, maxDrawdown) ==
  IF i > Len(values) THEN maxDrawdown
  ELSE LET peak1 == IF RGt(values[i], peak) THEN values[i] ELSE peak
           drawdown == IF peak1 = Zero THEN Zero ELSE RSub(RDiv(values[i], peak1), One)
       IN  MaxDrawdownLoop(values, i + 1, peak1,
                           IF RLt(drawdown, maxDrawdown) THEN drawdown ELSE maxDrawdown)

\* mutant of calculateMaxDrawdown: the fall of the last value from the peak
LastDrawdown(values) ==
  IF Len(values) = 0 THEN Zero
  ELSE RMin(Zero, calculateDrawdownSeries(values)[Len(values)])

calculateMaxDrawdown(values) ==
  IF Len(values) = 0 THEN Zero ELSE MaxDrawdownLoop(values, 1, values[1], Zero)

\* mutant of FlowAt: the flow of the day before
FlowOfPreviousDay(netFlows, i) == IF i - 1 \in DOMAIN netFlows THEN netFlows[i - 1] ELSE Zero

\* netFlows[index] ?? 0, for the 1-based position i
FlowAt(netFlows, i) == IF i \in DOMAIN netFlows THEN netFlows[i] ELSE Zero

\* mutant of calculateTimeWeightedDailyReturns: the flows are not taken out
ReturnsWithFlows(values, netFlows) ==
  [i \in 1..(Len(values) - 1) |->
     IF RLe(values[i], Zero) THEN Zero
     ELSE RDiv(RSub(values[i + 1], values[i]), values[i])]

\* calculateTimeWeightedDailyReturns (src/src/lib/calendar.ts, lines 133-147); the
\* quotient of two finite doubles is taken to be finite
calculateTimeWeightedDailyReturns(values, netFlows) ==
  [i \in 1..(Len(values) - 1) |->
     LET previousValue == values[i]
     IN  IF RLe(previousValue, Zero) THEN Zero
         ELSE RDiv(RSub(RSub(values[i + 1], previousValue), FlowAt(netFlows, i + 1)),
                   previousValue)]

\* chainReturns (src/src/lib/calendar.ts, lines 93-95)
RECURSIVE chainReturns(_)
chainReturns(returns) ==
  IF returns = <<>> THEN Zero
  ELSE LET n == Len(returns)
       IN  RSub(RMul(RAdd(chainReturns(SubSeq(returns, 1, n - 1)), One),
                     RAdd(One, returns[n])),
                One)

\* mutant of buildYearlyReturnMap: a return counts for the year of the earlier date
YearlyReturnOfEarlierDate(dates, dailyReturns, year) ==
  LET inYear == SelectSeq([i \in DOMAIN dailyReturns |-> i],
                          LAMBDA i : i + 1 \in DOMAIN dates
                                     /\ dates[i] \div 10000 = year)
  IN  IF inYear = <<>> THEN Zero
      ELSE RSub(RMul(RAdd(One, dailyReturns[inYear[1]]),
                     IF Len(inYear) > 1 THEN RAdd(One, dailyReturns[inYear[2]]) ELSE One),
                One)

\* buildYearlyReturnMap (src/src/lib/calendar.ts, lines 160-179): the years that
\* have a return, and the compounded return of a year
YearsOf(dates, dailyReturns) ==
  {getUTCFullYear(dates[i + 1]) : i \in {j \in DOMAIN dailyReturns : j + 1 \in DOMAIN dates}}

buildYearlyReturnMap(dates, dailyReturns, year) ==
  LET inYear == SelectSeq([i \in DOMAIN dailyReturns |-> i],
                          LAMBDA i : i + 1 \in DOMAIN dates
                                     /\ getUTCFullYear(dates[i + 1]) = year)
  IN  chainReturns([k \in DOMAIN inYear |-> dailyReturns[inYear[k]]])

\* String(year) of a year >= 0, as the sequence of its decimal digits
RECURSIVE DecimalDigits(_)
DecimalDigits(n) == IF n < 10 THEN <<n>> ELSE Append(DecimalDigits(n \div 10), n % 10)

\* a < b in the order of Array.prototype.sort without a comparator: by code units
RECURSIVE StringBefore(_, _)
StringBefore(a, b) ==
  IF a = <<>> THEN b # <<>>
  ELSE IF b = <<>> THEN FALSE
  ELSE IF a[1] # b[1] THEN a[1] < b[1]
  ELSE StringBefore(Tail(a), Tail(b))

\* [...new Set(years)].sort(): the years are sorted as strings
RECURSIVE SortedYears(_)
SortedYears(years) ==
  IF years = {} THEN <<>>
  ELSE LET first == CHOOSE y \in years :
                      \A z \in years \ {y} : StringBefore(DecimalDigits(y), DecimalDigits(z))
       IN  <<first>> \o SortedYears(years \ {first})

\* calculateYearlyReturnSeries (src/src/lib/calendar.ts, lines 181-195)
calculateYearlyReturnSeries(dates, portfolioDailyReturns, benchmarkDailyReturns) ==
  LET portfolioYears == YearsOf(dates, portfolioDailyReturns)
      benchmarkYears == YearsOf(dates, benchmarkDailyReturns)
      years == SortedYears(portfolioYears \cup benchmarkYears)
  IN  [k \in DOMAIN years |->
         [year |-> years[k],
          portfolioReturn |->
            IF years[k] \in portfolioYears
            THEN buildYearlyReturnMap(dates, portfolioDailyReturns, years[k]) ELSE Zero,
          benchmarkReturn |->
            IF years[k] \in benchmarkYears
            THEN buildYearlyReturnMap(dates, benchmarkDailyReturns, years[k]) ELSE Zero]]

\* calculatePerformanceMetrics (src/src/lib/calendar.ts, lines 197-232) without
\* the statistics that need roots: twrCumulative stands for growthCagr, which is
\* calculateCagr(1, 1 + twrCumulative, years)
calculatePerformanceMetrics(values, netFlows, invested) ==
  LET endingValue == IF values = <<>> THEN Zero ELSE values[Len(values)]
  IN  [endingValue |-> endingValue,
       totalInvested |-> invested,
       gains |-> RSub(endingValue, invested),
       cumulativeReturn |->
         IF RGt(invested, Zero) THEN RSub(RDiv(endingValue, invested), One) ELSE Zero,
       twrCumulative |-> chainReturns(calculateTimeWeightedDailyReturns(values, netFlows)),
       maxDrawdown |-> calculateMaxDrawdown(values)]

\* lines 811-863
Result ==
  [timeline |-> timeline,
   metrics |->
     [portfolio |->
        calculatePerformanceMetrics([i \in DOMAIN timeline |-> timeline[i].portfolioValue],
                                    [i \in DOMAIN timeline |-> timeline[i].netFlow],
                                    totalInvested),
      benchmark |->
        calculatePerformanceMetrics([i \in DOMAIN timeline |-> timeline[i].benchmarkValue],
                                    [i \in DOMAIN timeline |-> timeline[i].netFlow],
                                    totalInvested)],
   yearlyReturns |->
     LET netFlows == [i \in DOMAIN timeline |-> timeline[i].netFlow]
     IN  calculateYearlyReturnSeries(
           [i \in DOMAIN timeline |-> timeline[i].date],
           calculateTimeWeightedDailyReturns(
             [i \in DOMAIN timeline |-> timeline[i].portfolioValue], netFlows),
           calculateTimeWeightedDailyReturns(
             [i \in DOMAIN timeline |-> timeline[i].benchmarkValue], netFlows)),
   drawdown |->
     LET portfolioDrawdown ==
           calculateDrawdownSeries([i \in DOMAIN timeline |-> timeline[i].portfolioValue])
         benchmarkDrawdown ==
           calculateDrawdownSeries([i \in DOMAIN timeline |-> timeline[i].benchmarkValue])
     IN  [i \in DOMAIN timeline |->
            [date |-> timeline[i].date,
             portfolioDrawdown |-> portfolioDrawdown[i],
             benchmarkDrawdown |-> benchmarkDrawdown[i]]],
   cashflowBreakdown |->
     [initialPrincipal |-> request.initialAmount,
      contributions |-> contributions,
      totalInvested |-> totalInvested,
      gains |-> RSub(timeline[Len(timeline)].portfolioValue, totalInvested),
      endingCash |-> timeline[Len(timeline)].cashValue,
      endingStockValue |-> timeline[Len(timeline)].stockValue]]

Return ==
  /\ pc = "result"
  /\ outcome' = Returned(Result)
  /\ firstResult' = IF runNo = 1 THEN <<Result>> ELSE firstResult
  /\ pc' = "settled"
  /\ UNCHANGED <<dashboardVars, etfVars, sourceVars, harnessVars, request, response, pending, fetchLog, historyMap, env,
                 tradingDays, contributionDays, rebalanceDays, index, holdings,
                 cashValue, benchmarkShares, totalInvested, contributions, netFlow,
                 rebalanced, timeline, runNo>>

\* POST, lines 12-47: the result, or the answer to what runSimulation threw
Respond ==
  /\ pc = "settled"
  /\ env.caller = "POST"
  /\ response' =
       IF outcome[1].ok THEN Json(200, "", <<>>, <<outcome[1].result>>)
       ELSE IF outcome[1].class = "YahooDataError" THEN YahooDataErrorResponse
       ELSE ErrorResponse(outcome[1].message)
  /\ pc' = "responded"
  /\ UNCHANGED <<dashboardVars, etfVars, sourceVars, harnessVars, request, pending, fetchLog, historyMap, outcome, env,
                 engineVars>>

MaxRuns == 2

\* the caller submits the same request once more
Rerun ==
  /\ runNo \in 1..(MaxRuns - 1)
  /\ \/ pc = "responded" /\ env.caller = "POST" /\ pc' = "post"
     \/ pc = "settled" /\ env.caller = "direct" /\ pc' = "run"
  /\ pending = {}
  /\ response' = <<>>
  /\ UNCHANGED <<dashboardVars, etfVars, sourceVars, harnessVars, request, pending, fetchLog, historyMap, outcome, env,
                 engineVars>>

Next ==
  \/ PostReceive
  \/ RunStart
  \/ \E ticker \in pending : FetchResolve(ticker)
  \/ \E ticker \in pending : FetchReject(ticker)
  \/ Load
  \/ Splits
  \/ Dividends
  \/ InitialInvestment
  \/ Contribution
  \/ ExpenseDrag
  \/ Rebalance
  \/ Record
  \/ Return
  \/ Respond
  \/ Rerun

----------------------------------------------------------------------------
(* Market data                                                             *)

PricePoint(date, close, adjustedClose, dividendPerShare, splitRatio) ==
  [date |-> date, close |-> close, adjustedClose |-> adjustedClose,
   dividendPerShare |-> dividendPerShare, splitRatio |-> splitRatio]

\* a series without dividends and splits
Series(dates, closes) ==
  [i \in DOMAIN dates |-> PricePoint(dates[i], closes[i], closes[i], Zero, One)]

Flat(dates, price) == Series(dates, [i \in DOMAIN dates |-> price])

Rats(ns) == [i \in DOMAIN ns |-> R(ns[i])]

VTI == Str3("V", "T", "I")

Market(spy, qqq, vti) == (SPY :> spy) @@ (QQQ :> qqq) @@ (VTI :> vti)

Environment(caller, failures, market) ==
  [caller |-> caller, failures |-> failures, market |-> market]

\* a client posts the body to the route
Posted(body, e) ==
  /\ input = [json |-> TRUE, body |-> body]
  /\ request = <<>>
  /\ pc = "post"
  /\ env = e

\* a module calls runSimulation with a request no schema has seen
Called(body, e) ==
  /\ input = [json |-> TRUE, body |-> body]
  /\ request = ParsedValue(body)
  /\ pc = "run"
  /\ env = e

Started ==
  /\ output = NotCalled
  /\ response = <<>>
  /\ pending = {}
  /\ fetchLog = <<>>
  /\ historyMap = <<>>
  /\ outcome = <<>>
  /\ EngineIdle
  /\ SourceIdle
  /\ EtfIdle
  /\ DashboardIdle

----------------------------------------------------------------------------
(* The route: bodies of every kind, a provider that may fail               *)

\* three dates of the sampleSeries of the route test
RouteDays == <<20240102, 20240103, 20240104>>

RouteMarkets ==
  {Market(Flat(RouteDays, R(100)), Flat(RouteDays, R(200)), Flat(RouteDays, R(50))),
   Market(Series(RouteDays, <<R(100), R(101), R(102)>>), Flat(RouteDays, R(200)),
          Flat(RouteDays, R(50))),
   \* one date in common
   Market(Flat(<<20240102, 20240103>>, R(100)), Flat(<<20240103, 20240104>>, R(200)),
          Flat(RouteDays, R(50))),
   \* no date in common
   Market(Flat(<<20240102>>, R(100)), Flat(<<20240104>>, R(200)), Flat(RouteDays, R(50))),
   \* one date in common, which Yahoo reports twice for SPY
   Market(Series(<<20240103, 20240103>>, Rats(<<100, 101>>)), Flat(<<20240103>>, R(200)),
          Flat(RouteDays, R(50)))}

RouteEnvironments ==
  {Environment("POST", f, m) : f \in {{}, {"YahooDataError", "SyntaxError"}}, m \in RouteMarkets}

\* the allocations of the route test, without expense ratios
HalfAndHalf == <<Alloc(SPY, R(50), Zero), Alloc(QQQ, R(50), Zero)>>

RouteAllocationLists ==
  {HalfAndHalf,
   <<Alloc(SPY, R(100), Zero)>>,
   <<Alloc(SPY, R(60), Zero), Alloc(QQQ, Zero, Zero)>>,
   <<Alloc(SPY, <<5003, 100>>, Zero), Alloc(QQQ, <<5003, 100>>, Zero)>>,
   <<Alloc(SPY, R(50), Zero), Alloc(Str3("s", "p", "y"), R(50), Zero)>>,
   <<Alloc(<<>>, R(50), Zero), Alloc(QQQ, R(50), Zero)>>,
   <<Alloc(SPY, Zero, Zero), Alloc(QQQ, Zero, Zero)>>,
   <<Alloc(SPY, <<3, 100>>, Zero), Alloc(QQQ, <<3, 100>>, Zero)>>,
   <<Alloc(SPY, <<1, 20>>, Zero), Alloc(QQQ, Zero, Zero)>>,
   <<>>}

RouteBodies ==
  {BaseBody(a) : a \in RouteAllocationLists}
  \cup {Replace(BaseBody(HalfAndHalf), r) : r \in Replacements}

\* requests whose allocations all have weight 0, and two that have a positive one
DirectBodies ==
  {BaseBody(a) : a \in {<<Alloc(SPY, Zero, Zero)>>,
                        <<Alloc(SPY, Zero, Zero), Alloc(QQQ, Zero, Zero)>>,
                        <<>>,
                        <<Alloc(SPY, R(60), Zero), Alloc(QQQ, Zero, Zero)>>,
                        <<Alloc(Str3("q", "q", "q"), R(50), Zero), Alloc(QQQ, R(50), Zero)>>,
                        HalfAndHalf}}

InitRoute ==
  /\ Started
  /\ \/ \E body \in RouteBodies, e \in RouteEnvironments : Posted(body, e)
     \/ \E e \in RouteEnvironments :
          /\ input = [json |-> FALSE, body |-> <<>>]
          /\ request = <<>>
          /\ pc = "post"
          /\ env = e
     \/ \E body \in DirectBodies, e \in RouteEnvironments :
          Called(body, [e EXCEPT !.caller = "direct"])

SpecRoute == InitRoute /\ [][Next]_vars

----------------------------------------------------------------------------
(* The engine: valid requests over markets that exercise every step        *)

EngineDays == <<20240328, 20240401, 20240402, 20240501>>

\* a quarter that starts on its first trading day
QuarterDays == <<20240401, 20240402, 20240501>>

FlatMarket == Market(Flat(EngineDays, R(10)), Flat(EngineDays, R(10)), Flat(EngineDays, R(10)))

\* SPY doubles on the first trading day of April
DriftMarket ==
  Market(Series(EngineDays, Rats(<<10, 20, 20, 25>>)), Flat(EngineDays, R(10)),
         Series(EngineDays, Rats(<<10, 11, 12, 12>>)))

\* SPY moves by a tenth of a percent
SmallDriftMarket ==
  Market(Series(<<20240328, 20240401, 20240402>>, <<R(10), <<1001, 100>>, <<1001, 100>>>>),
         Flat(EngineDays, R(10)), Flat(EngineDays, R(10)))

QuarterMarket ==
  Market(Series(QuarterDays, Rats(<<10, 20, 20>>)), Flat(QuarterDays, R(10)),
         Flat(QuarterDays, R(10)))

\* SPY pays 1 per share on 2024-04-01 and splits 2:1 on 2024-04-02
EventMarket ==
  Market(<<PricePoint(20240328, R(10), R(10), Zero, One),
           PricePoint(20240401, R(10), R(9), One, One),
           PricePoint(20240402, R(5), R(5), Zero, R(2)),
           PricePoint(20240501, R(5), R(5), Zero, One)>>,
         Flat(EngineDays, R(10)), Flat(EngineDays, R(10)))

\* QQQ has no price on 2024-04-01: Yahoo reports a close of 0
ZeroCloseMarket ==
  Market(Series(EngineDays, Rats(<<10, 20, 20, 20>>)),
         Series(EngineDays, Rats(<<10, 0, 10, 10>>)), Flat(EngineDays, R(10)))

\* Yahoo reports 2024-04-01 twice for SPY: the daily bar and the live quote
RepeatedDateMarket ==
  Market(Series(<<20240328, 20240401, 20240401, 20240402>>, Rats(<<10, 12, 20, 20>>)),
         Flat(<<20240328, 20240401, 20240402>>, R(10)),
         Flat(<<20240328, 20240401, 20240402>>, R(10)))

\* SPY and QQQ share one date; SPY and VTI share two
ShortMarket ==
  Market(Flat(<<20240328, 20240401>>, R(10)), Flat(<<20240401, 20240402>>, R(10)),
         Flat(EngineDays, R(10)))

EngineMarkets ==
  {FlatMarket, DriftMarket, SmallDriftMarket, QuarterMarket, EventMarket, ZeroCloseMarket,
   RepeatedDateMarket, ShortMarket}

EngineAllocationLists ==
  {<<Alloc(SPY, R(100), Zero)>>,
   <<Alloc(SPY, R(50), Zero), Alloc(QQQ, R(50), Zero)>>,
   <<Alloc(SPY, R(40), Zero), Alloc(QQQ, R(40), Zero)>>,
   <<Alloc(QQQ, Zero, Zero), Alloc(SPY, R(60), Zero)>>}

\* initialAmount, monthlySalary, monthlyContribution: the salary leaves 0 or 60
\* after the living cost
CashFlows ==
  {<<R(100), Zero, Zero>>,
   <<R(100), R(MONTHLY_LIVING_COST + 60), R(30)>>,
   <<Zero, R(MONTHLY_LIVING_COST + 60), R(30)>>,
   <<R(100), R(MONTHLY_LIVING_COST + 60), Zero>>}

EngineBody(allocations, flow, reserve, policy, benchmark) ==
  [startDate |-> 20240301,
   endDate |-> 20240531,
   initialAmount |-> flow[1],
   monthlySalary |-> <<flow[2]>>,
   monthlyContribution |-> flow[3],
   minimumCashReserve |-> <<reserve>>,
   dividendPolicy |-> <<policy>>,
   allocations |-> allocations,
   rebalanceFrequency |-> <<>>,
   contributionRule |-> <<>>,
   benchmarkTicker |-> <<benchmark>>,
   riskFreeRate |-> <<>>]

EngineBodies ==
  {EngineBody(a, f, r, p, b) :
     a \in EngineAllocationLists, f \in CashFlows, r \in {Zero, R(20)},
     p \in {"to_cash", "reinvest_same_asset"}, b \in {SPY, VTI}}

\* the largest expense ratio the schema accepts
CostlyBodies ==
  {EngineBody(<<Alloc(SPY, R(100), MaxExpenseRatio)>>, f, Zero, "to_cash", SPY) :
     f \in CashFlows}

\* a reserve above the money of the first month
ReservedBodies ==
  {EngineBody(a, f, R(200), "to_cash", SPY) : a \in EngineAllocationLists, f \in CashFlows}

Init ==
  /\ Started
  /\ \/ \E body \in EngineBodies \cup ReservedBodies, m \in EngineMarkets :
          Posted(body, Environment("POST", {}, m))
     \/ \E body \in CostlyBodies : Posted(body, Environment("POST", {}, ShortMarket))
     \/ \E body \in {EngineBody(a, <<R(100), Zero, Zero>>, Zero, "to_cash", VTI) :
                       a \in EngineAllocationLists} :
          Posted(body, Environment("POST", {"YahooDataError", "SyntaxError"}, FlatMarket))

Spec == Init /\ [][Next]_vars

----------------------------------------------------------------------------
(* Properties of the route                                                 *)

Responded == pc = "responded" /\ env.caller = "POST"

\* how the run that has just settled failed, "" if it did not fail
FailureClass == IF outcome # <<>> /\ ~outcome[1].ok THEN outcome[1].class ELSE ""

\* C4: a POST whose body fails the schema is answered with HTTP 400 and the error
\* 'Invalid simulation request'; no price series is fetched for it and no step of
\* the simulation runs.
C4_InvalidRequestRejected ==
  (env.caller = "POST" /\ input.json /\ ~simulationRequestSchema(input.body).success)
    => /\ pc \in {"post", "responded"}
       /\ fetchLog = <<>> /\ pending = {} /\ historyMap = <<>>
       /\ runNo = 0 /\ outcome = <<>> /\ EngineIdle
       /\ pc = "responded"
            => /\ response[1].status = 400
               /\ response[1].error = "Invalid simulation request"
               /\ response[1].result = <<>>

\* an empty ticker, answered
C4_Witness ==
  /\ Responded
  /\ input.json
  /\ Len(input.body.allocations) = 2
  /\ input.body.allocations[1].ticker = <<>>
  /\ response[1].status = 400

\* C7 as stated: when the fetch of one ticker fails, the POST is answered with HTTP
\* 502 and without a result.
C7_AsStated ==
  (Responded /\ FailureClass \in {"YahooDataError", "SyntaxError"})
    => response[1].status = 502 /\ response[1].result = <<>>

\* the dates every ticker of the run has a PricePoint for
OverlappingDays ==
  {d \in UNION {Range(Dates(env.market[t])) : t \in Range(Tickers(request))} :
     \A t \in Range(Tickers(request)) : d \in Range(Dates(env.market[t]))}

\* C8 as stated: when the tickers of a run have fewer than 2 dates in common and
\* every fetch succeeds, the run fails with the insufficient-data error, which no
\* other failure is answered with, before a trading day is processed and without a
\* timeline.
C8_AsStated ==
  /\ (Responded /\ runNo > 0 /\ Len(Allocations(request)) > 0
      /\ FailureClass \notin {"YahooDataError", "SyntaxError"}
      /\ Cardinality(OverlappingDays) < 2)
       => /\ response[1].status = 500
          /\ response[1].error = InsufficientMessage
          /\ response[1].result = <<>>
          /\ timeline = <<>>
  /\ (Responded /\ response[1].error = InsufficientMessage)
       => (runNo > 0 /\ Cardinality(OverlappingDays) < 2)

\* C9: a request in which no allocation has a weight above 0 fails with the
\* configuration error; no series is fetched, no trading day is processed, and no
\* holdings, cash or timeline come into being.
C9_NoPositiveWeight ==
  (request # <<>> /\ \A i \in DOMAIN request.allocations :
                       ~RGt(request.allocations[i].targetWeight, Zero))
    => /\ pc \in {"run", "settled"}
       /\ fetchLog = <<>> /\ pending = {} /\ historyMap = <<>>
       /\ tradingDays = <<>> /\ index = 0 /\ holdings = <<>> /\ cashValue = Zero
       /\ timeline = <<>>
       /\ runNo > 0 => outcome = Thrown("Error", ConfigurationMessage)

\* two allocations of weight 0, refused
C9_Witness ==
  /\ pc = "settled"
  /\ Len(request.allocations) = 2
  /\ \A i \in DOMAIN request.allocations : request.allocations[i].targetWeight = Zero
  /\ outcome = Thrown("Error", ConfigurationMessage)

----------------------------------------------------------------------------
(* Properties of the engine                                                *)

Succeeded == pc = "settled" /\ outcome # <<>> /\ outcome[1].ok

\* C1 as stated: the timeline of a returned result has one point per overlapping
\* trading day, its dates increase strictly, and no portfolioValue is negative.
C1_AsStated ==
  Succeeded =>
    LET points == outcome[1].result.timeline
    IN  /\ Len(points) = Cardinality(OverlappingDays)
        /\ \A i \in 1..(Len(points) - 1) : points[i].date < points[i + 1].date
        /\ \A i \in DOMAIN points : RGe(points[i].portfolioValue, Zero)

\* the stock budget under the cash floor, from a portfolio value
InvestableBudget(portfolioValue) ==
  LET W == RSum([i \in DOMAIN request.allocations |->
                   RDiv(request.allocations[i].targetWeight, R(100))])
      floor == RMin(request.minimumCashReserve, portfolioValue)
  IN  RMax(Zero, RMin(RMul(portfolioValue, W), RMax(Zero, RSub(portfolioValue, floor))))

\* |positionValue - (weight / totalWeight) * investableBudget| <= 0.5% * portfolioValue
\* for allocation i of the request, in the state the TimelinePoint is taken from
WithinTolerance(i) ==
  LET a == request.allocations[i]
      ticker == toUpperCase(a.ticker)
      totalWeight == RSum([j \in DOMAIN request.allocations |->
                             request.allocations[j].targetWeight])
      positionValue == IF ticker \in DOMAIN holdings
                       THEN RMul(holdings[ticker], Quote[ticker].close) ELSE Zero
      target == RMul(RDiv(a.targetWeight, totalWeight),
                     InvestableBudget(Point.portfolioValue))
  IN  RLe(RAbs(RSub(positionValue, target)), RMul(<<5, 1000>>, Point.portfolioValue))

\* C2 as stated: at the TimelinePoint of every rebalance day, every allocation is
\* within 0.5% of the portfolio value of its share of the investable budget.
C2_AsStated ==
  (pc = "record" /\ Day \in rebalanceDays)
    => \A i \in DOMAIN request.allocations : WithinTolerance(i)

\* C2: at the TimelinePoint of a rebalance day, the first point of the timeline
\* excepted, every allocation is within 0.5% of the portfolio value of its share of
\* the investable budget, unless it has a positive weight and a close that is not
\* positive that day.
C2_DriftTolerance ==
  (pc = "record" /\ Day \in rebalanceDays /\ index > 0)
    => \A i \in DOMAIN request.allocations :
         (RGt(request.allocations[i].targetWeight, Zero)
            => RGt(Quote[toUpperCase(request.allocations[i].ticker)].close, Zero))
           => WithinTolerance(i)

\* two allocations rebalanced after SPY doubled
C2_Witness ==
  /\ pc = "record"
  /\ Day \in rebalanceDays
  /\ index > 0
  /\ rebalanced
  /\ Len(Allocations(request)) = 2
  /\ env.market = DriftMarket

\* C3: a run of the same request over the same series returns the timeline,
\* drawdown series and cashflow breakdown the first run returned.
C3_SameResult ==
  (Succeeded /\ firstResult # <<>>) => outcome[1].result = firstResult[1]

\* a second run that passed a rebalance and returned
C3_Witness ==
  /\ Succeeded
  /\ runNo = 2
  /\ firstResult # <<>>
  /\ Len(timeline) = 4
  /\ env.market = DriftMarket

----------------------------------------------------------------------------
(* intersectDates applied to any lists of dates                            *)

MaxDateListLen == 3

IntersectDates == {20240328, 20240401, 20240402}

InitIntersect ==
  /\ input \in BoundedSeq(BoundedSeq(IntersectDates, MaxDateListLen), 2)
  /\ output = NotCalled
  /\ RouteIdle
  /\ EngineIdle
  /\ SourceIdle
  /\ EtfIdle
  /\ DashboardIdle

CallIntersectDates ==
  /\ output = NotCalled
  /\ output' = <<intersectDates(input)>>
  /\ UNCHANGED <<dashboardVars, etfVars, sourceVars, input, routeVars, engineVars>>

NextIntersect == CallIntersectDates

SpecIntersect == InitIntersect /\ [][NextIntersect]_vars

\* C11 as stated: the trading days are exactly the dates present in every list, in
\* ascending order and without duplicates, whatever the order or repetition of the
\* dates in the lists.
C11_AsStated ==
  (output # NotCalled /\ Len(input) > 0) =>
    LET days == output[1]
    IN  /\ Range(days) = {d \in IntersectDates : \A k \in DOMAIN input : d \in Range(input[k])}
        /\ \A i \in 1..(Len(days) - 1) : days[i] < days[i + 1]

----------------------------------------------------------------------------
(* One allocation of 100%: the portfolio against the asset itself          *)

\* calculateSimpleDailyReturns (src/src/lib/benchmark.ts, lines 4-17)
calculateSimpleDailyReturns(points) ==
  [i \in 1..(Len(points) - 1) |->
     IF RLe(points[i].adjustedClose, Zero) THEN Zero
     ELSE RSub(RDiv(points[i + 1].adjustedClose, points[i].adjustedClose), One)]

\* initialAmount, monthlySalary, monthlyContribution
SingleCashFlows ==
  CashFlows \cup {<<Zero, R(MONTHLY_LIVING_COST + 60), R(100)>>,
                  <<R(100), R(MONTHLY_LIVING_COST + 60), R(60)>>,
                  <<Zero, Zero, R(30)>>}

SingleBodies ==
  {EngineBody(<<Alloc(SPY, R(100), e)>>, f, r, "reinvest_same_asset", b) :
     e \in {Zero, MaxExpenseRatio}, f \in SingleCashFlows, r \in {Zero, R(20)}, b \in {SPY, VTI}}

\* SPY closes at half its adjusted close on every day
ScaledMarket ==
  Market([i \in DOMAIN EngineDays |->
            PricePoint(EngineDays[i], R(<<10, 20, 20, 25>>[i]), R(<<20, 40, 40, 50>>[i]),
                       Zero, One)],
         Flat(EngineDays, R(10)), Flat(EngineDays, R(10)))

\* SPY's adjusted close is not a multiple of its close
UnevenMarket ==
  Market([i \in DOMAIN EngineDays |->
            PricePoint(EngineDays[i], R(<<10, 20, 20, 25>>[i]), R(<<9, 19, 20, 25>>[i]),
                       Zero, One)],
         Flat(EngineDays, R(10)), Flat(EngineDays, R(10)))

\* SPY splits 2:1 on 2024-04-02 and Yahoo's closes are adjusted for the split
SplitAdjustedMarket ==
  Market([i \in DOMAIN EngineDays |->
            PricePoint(EngineDays[i], R(10), R(10), Zero, IF i = 3 THEN R(2) ELSE One)],
         Flat(EngineDays, R(10)), Flat(EngineDays, R(10)))

\* SPY has no price on 2024-04-01
ZeroDayMarket ==
  Market(Series(EngineDays, Rats(<<10, 0, 10, 10>>)), Flat(EngineDays, R(10)),
         Flat(EngineDays, R(10)))

SingleMarkets ==
  {FlatMarket, DriftMarket, QuarterMarket, EventMarket, RepeatedDateMarket, ShortMarket,
   ScaledMarket, UnevenMarket, SplitAdjustedMarket, ZeroDayMarket}

InitSingle ==
  /\ Started
  /\ \/ \E body \in SingleBodies, m \in SingleMarkets :
          /\ body.allocations[1].expenseRatio # Zero => m = ShortMarket
          /\ Posted(body, Environment("POST", {}, m))
     \/ Posted(EngineBody(<<Alloc(SPY, R(100), Zero)>>, <<R(100), Zero, Zero>>, Zero,
                          "reinvest_same_asset", VTI),
               Environment("POST", {"YahooDataError", "SyntaxError"}, FlatMarket))

SpecSingle == InitSingle /\ [][Next]_vars

\* the points of the only allocation on the trading days of the run
AssetPoints ==
  LET ticker == toUpperCase(request.allocations[1].ticker)
  IN  [i \in DOMAIN tradingDays |-> MapGet(env.market[ticker], tradingDays[i])]

\* one allocation of 100% and no expense ratio, over a series without dividends
SingleAllocation ==
  /\ Len(request.allocations) = 1
  /\ request.allocations[1].targetWeight = R(100)
  /\ request.allocations[1].expenseRatio = Zero
  /\ \A i \in DOMAIN AssetPoints : AssetPoints[i].dividendPerShare = Zero

\* the portfolio's daily returns, cumulative return and yearly returns are those of
\* the asset's adjusted close
TracksAsset ==
  LET result == outcome[1].result
      points == result.timeline
      dates == [i \in DOMAIN points |-> points[i].date]
      assetReturns == calculateSimpleDailyReturns(AssetPoints)
      portfolioReturns ==
        calculateTimeWeightedDailyReturns([i \in DOMAIN points |-> points[i].portfolioValue],
                                          [i \in DOMAIN points |-> points[i].netFlow])
  IN  /\ portfolioReturns = assetReturns
      /\ result.metrics.portfolio.twrCumulative = chainReturns(assetReturns)
      /\ \A k \in DOMAIN result.yearlyReturns :
           result.yearlyReturns[k].portfolioReturn =
             buildYearlyReturnMap(dates, assetReturns, result.yearlyReturns[k].year)

\* C12 as stated: with one allocation of 100%, no dividends and no expense ratio the
\* portfolio's time-weighted returns are the asset's adjusted-close returns.
C12_AsStated == (Succeeded /\ SingleAllocation) => TracksAsset

\* all the money of the run is in the asset: no cash reserve, a salary that is
\* invested whole, money on the first day, and a positive close throughout
FullyInvested ==
  /\ request.minimumCashReserve = Zero
  /\ RGe(request.monthlyContribution,
         RMax(Zero, RSub(request.monthlySalary, R(MONTHLY_LIVING_COST))))
  /\ \/ RGt(request.initialAmount, Zero)
     \/ /\ RGt(request.monthlySalary, R(MONTHLY_LIVING_COST))
        /\ RGt(request.monthlyContribution, Zero)
  /\ \A i \in DOMAIN AssetPoints :
       /\ RGt(AssetPoints[i].close, Zero)
       /\ AssetPoints[i].splitRatio = One

\* the close is the same multiple of the adjusted close on every day
Proportional ==
  \A i, j \in DOMAIN AssetPoints :
    RMul(AssetPoints[i].close, AssetPoints[j].adjustedClose)
      = RMul(AssetPoints[j].close, AssetPoints[i].adjustedClose)

\* C12: with one allocation of 100%, no dividends, no splits and no expense ratio,
\* a close proportional to the adjusted close, and all the money of the run invested
\* (no cash reserve, the salary left after the living cost invested whole, money on
\* the first day), the portfolio's time-weighted daily returns, their cumulative
\* return and the yearly returns are those of the asset's adjusted close.
C12_TracksAsset ==
  (Succeeded /\ SingleAllocation /\ FullyInvested /\ Proportional) => TracksAsset

\* a run whose salary is invested whole, over a market that moves
C12_Witness ==
  /\ Succeeded
  /\ SingleAllocation
  /\ FullyInvested
  /\ Proportional
  /\ request.initialAmount = Zero
  /\ env.market = ScaledMarket
  /\ Len(timeline) = 4

----------------------------------------------------------------------------
(* The cash reserve                                                        *)

----------------------------------------------------------------------------
(* computeDesiredStockBudget on its own                                    *)

\* portfolio values, total stock weights and cash reserves of the calls
BudgetValues == {Zero, R(1), R(20), R(100), <<201, 2>>, R(1000)}
BudgetWeights == {Zero, <<1, 20>>, <<1, 2>>, One, <<21, 20>>}
BudgetReserves == {Zero, R(1), R(20), R(100), R(500)}

InitBudget ==
  /\ input \in [portfolioValue : BudgetValues, totalStockWeight : BudgetWeights,
                minimumCashReserve : BudgetReserves]
  /\ output = NotCalled
  /\ RouteIdle
  /\ EngineIdle
  /\ SourceIdle
  /\ EtfIdle
  /\ DashboardIdle

CallComputeDesiredStockBudget ==
  /\ output = NotCalled
  /\ output' = <<computeDesiredStockBudget(input.portfolioValue, input.totalStockWeight,
                                           input.minimumCashReserve)>>
  /\ UNCHANGED <<dashboardVars, etfVars, sourceVars, input, routeVars, engineVars>>

NextBudget == CallComputeDesiredStockBudget

SpecBudget == InitBudget /\ [][NextBudget]_vars

\* C14: the budget is P x W clamped to [0, max(0, P - min(R, P))]: it is never
\* negative, never above P x W, never above P - min(R, P), and it is 0 when P <= 0,
\* W <= 0 or P <= R.
C14_BudgetIsClamped ==
  output # NotCalled =>
    LET P == input.portfolioValue
        W == input.totalStockWeight
        Reserve == input.minimumCashReserve
        floor == IF RLt(Reserve, P) THEN Reserve ELSE P
        top == IF RGt(RSub(P, floor), Zero) THEN RSub(P, floor) ELSE Zero
        wanted == RMul(P, W)
        budget == output[1]
    IN  /\ budget = (IF RLt(wanted, Zero) THEN Zero
                     ELSE IF RGt(wanted, top) THEN top ELSE wanted)
        /\ RGe(budget, Zero)
        /\ RLe(budget, wanted)
        /\ RLe(budget, RSub(P, floor))
        /\ (RLe(P, Zero) \/ RLe(W, Zero) \/ RLe(P, Reserve)) => budget = Zero

\* a call whose budget is cut by the reserve, below P x W
C14_Witness ==
  /\ output # NotCalled
  /\ RGt(output[1], Zero)
  /\ output[1] = RSub(input.portfolioValue, input.minimumCashReserve)
  /\ RLt(output[1], RMul(input.portfolioValue, input.totalStockWeight))

----------------------------------------------------------------------------
(* The cache under any sequence of calls                                   *)

\* how far the clock runs, and the lifetimes entries are stored with
MaxNow == 3
CacheTtls == {0, 1, 2}

CacheTickers == {SPY, <<"S", ":", "2">>, <<"2", ":", "S">>}
CacheDates == {20240102, 20241231}
CacheRequests == CacheTickers \X CacheDates \X CacheDates

\* the two keys the calls below use
CacheKeys == {buildCacheKey(SPY, 20240102, 20241231), buildCacheKey(QQQ, 20240102, 20241231)}

InitCache ==
  /\ HarnessIdle
  /\ RouteIdle
  /\ EngineIdle
  /\ SourceIdle
  /\ EtfIdle
  /\ DashboardIdle

GetCached(key) ==
  LET got == getCached(memoryCache, key, now)
  IN  /\ memoryCache' = got.cache
      /\ output' = <<[key |-> key, value |-> got.value]>>
      /\ UNCHANGED <<dashboardVars, etfVars, input, yahooPc, attempt, lastError, fetchCalls, now, cacheLog,
                     routeVars, engineVars>>

SetCached(key, value, ttlMs) ==
  /\ memoryCache' = setCached(memoryCache, key, value, ttlMs, now)
  /\ cacheLog' = With(cacheLog, key, [at |-> now, ttlMs |-> ttlMs, value |-> value])
  /\ output' = NotCalled
  /\ UNCHANGED <<dashboardVars, etfVars, input, yahooPc, attempt, lastError, fetchCalls, now,
                 routeVars, engineVars>>

ClearExpiredCache ==
  /\ memoryCache' = clearExpiredCache(memoryCache, now)
  /\ output' = NotCalled
  /\ UNCHANGED <<dashboardVars, etfVars, input, yahooPc, attempt, lastError, fetchCalls, now, cacheLog,
                 routeVars, engineVars>>

\* time passes
Tick ==
  /\ now < MaxNow
  /\ now' = now + 1
  /\ output' = NotCalled
  /\ UNCHANGED <<dashboardVars, etfVars, input, yahooPc, attempt, lastError, fetchCalls, memoryCache, cacheLog,
                 routeVars, engineVars>>

NextCache ==
  \/ \E key \in CacheKeys : GetCached(key)
  \/ \E key \in CacheKeys, value \in {"old", "new"}, ttlMs \in CacheTtls :
       SetCached(key, value, ttlMs)
  \/ ClearExpiredCache
  \/ Tick

SpecCache == InitCache /\ [][NextCache]_vars

\* whether the latest setCached for the key happened less than its ttl ago
Fresh(key) ==
  /\ key \in DOMAIN cacheLog
  /\ now - cacheLog[key].at < cacheLog[key].ttlMs

\* C16: getCached returns a value only if the latest setCached for the key happened
\* less than its ttl ago, and then the value of that call; a key looked up at or
\* after its expiry is reported absent and is not in the cache any more; requests
\* that differ in ticker, start date or end date have different keys.
C16_NeverStale ==
  /\ output # NotCalled =>
       LET key == output[1].key
       IN  /\ output[1].value # <<>> =>
                Fresh(key) /\ output[1].value = <<cacheLog[key].value>>
           /\ ~Fresh(key) => output[1].value = <<>> /\ key \notin DOMAIN memoryCache
  /\ \A a, b \in CacheRequests :
       buildCacheKey(a[1], a[2], a[3]) = buildCacheKey(b[1], b[2], b[3]) => a = b

\* a lookup at the instant of expiry, which removes the entry, while the other key
\* is still served
C16_Witness ==
  /\ output # NotCalled
  /\ output[1].value = <<>>
  /\ output[1].key \in DOMAIN cacheLog
  /\ now = cacheLog[output[1].key].at + cacheLog[output[1].key].ttlMs
  /\ cacheLog[output[1].key].ttlMs > 0
  /\ \E other \in DOMAIN memoryCache : other # output[1].key /\ Fresh(other)

----------------------------------------------------------------------------
(* The Yahoo data source: getHistoricalSeries over fetchWithRetry          *)

\* mutant of RETRY_DELAYS_MS: one more retry
RetryDelaysLonger == <<250, 600, 1200, 2400>>

RETRY_DELAYS_MS == <<250, 600, 1200>>

\* the default of fetchWithRetry's parameter retries
Retries == Len(RETRY_DELAYS_MS)

\* what one call of fetch ends with: a rejection, a response that is not ok, or a
\* response that is ok
FetchResults == {"rejected", "status", "ok"}

NetworkMessage == "temporary network failure"
StatusMessage == "Yahoo Finance request failed with status 500"

FetchMessage(result) == IF result = "rejected" THEN NetworkMessage ELSE StatusMessage

\* a row of the chart payload: timestamp [date, seconds] of the bar, and the
\* close and adjusted close, <<>> where the payload has null
Row(date, seconds, close, adjclose) ==
  [timestamp |-> [date |-> date, seconds |-> seconds], close |-> close,
   adjclose |-> adjclose]

toIsoDateFromUnix(timestamp) == timestamp.date

\* a ?? b on values wrapped as <<>> / <<v>>
Coalesce(a, b) == IF a # <<>> THEN a ELSE b

\* the mapping of one timestamp to a PricePoint, <<>> for null
ToPoint(row) ==
  LET close == Coalesce(row.close, row.adjclose)
      adjustedClose == Coalesce(row.adjclose, row.close)
  IN  IF close = <<>> \/ adjustedClose = <<>> THEN <<>>
      ELSE <<PricePoint(toIsoDateFromUnix(row.timestamp), close[1], adjustedClose[1],
                        Zero, One)>>

RECURSIVE Flatten(_)
Flatten(wrapped) ==
  IF wrapped = <<>> THEN <<>> ELSE Head(wrapped) \o Flatten(Tail(wrapped))

\* insertion of a point behind the points that are not after it: a stable sort
RECURSIVE InsertByDate(_, _)
InsertByDate(sorted, point) ==
  IF sorted = <<>> THEN <<point>>
  ELSE IF sorted[Len(sorted)].date <= point.date THEN Append(sorted, point)
  ELSE Append(InsertByDate(SubSeq(sorted, 1, Len(sorted) - 1), point), sorted[Len(sorted)])

RECURSIVE SortByDate(_)
SortByDate(points) ==
  IF points = <<>> THEN <<>>
  ELSE InsertByDate(SortByDate(SubSeq(points, 1, Len(points) - 1)), points[Len(points)])

\* timestamps.map(...).filter(...).filter(...).sort(...)
PointsOf(rows, startDate, endDate) ==
  SortByDate(SelectSeq(Flatten([i \in DOMAIN rows |-> ToPoint(rows[i])]),
                       LAMBDA point : point.date >= startDate /\ point.date <= endDate))

\* the body of Yahoo's answer: whether it is JSON, whether chart.error is set, and
\* the rows of chart.result[0]
Payload(json, error, rows) == [json |-> json, error |-> error, rows |-> rows]

YahooStart == 20240102
YahooEnd == 20240103

YahooPayloads ==
  { Payload(TRUE, FALSE, <<Row(20240102, 0, <<<<199, 2>>>>, <<R(100)>>),
                           Row(20240103, 0, <<<<504, 5>>>>, <<R(101)>>)>>),
    Payload(TRUE, FALSE, <<Row(20240103, 0, <<>>, <<R(101)>>),
                           Row(20240102, 0, <<R(100)>>, <<>>)>>),
    Payload(TRUE, FALSE, <<Row(20240103, 0, <<R(100)>>, <<R(100)>>),
                           Row(20240103, 72000, <<R(101)>>, <<R(101)>>)>>),
    Payload(TRUE, FALSE, <<Row(20240102, 0, <<>>, <<>>),
                           Row(20240104, 0, <<R(100)>>, <<R(100)>>)>>),
    Payload(TRUE, FALSE, <<>>),
    Payload(TRUE, TRUE, <<>>),
    Payload(FALSE, FALSE, <<>>) }

YahooTickers == {SPY, <<" ", "s", "p", "y">>, <<" ">>}

CachedPoints == Flat(<<20240102>>, R(50))

\* a call of getHistoricalSeries on an empty cache, or on a cache that an earlier
\* call filled, before or at the expiry of its entry
InitYahoo ==
  /\ input \in [ticker : YahooTickers, startDate : {YahooStart}, endDate : {YahooEnd},
                payload : YahooPayloads]
  /\ output = NotCalled
  /\ yahooPc = "idle"
  /\ attempt = 0
  /\ lastError = <<>>
  /\ fetchCalls = <<>>
  /\ \/ memoryCache = EmptyMap /\ cacheLog = EmptyMap /\ now = 0
     \/ /\ memoryCache = setCached(EmptyMap, buildCacheKey(SPY, YahooStart, YahooEnd),
                                   CachedPoints, DEFAULT_CACHE_TTL_MS, 0)
        /\ cacheLog = With(EmptyMap, buildCacheKey(SPY, YahooStart, YahooEnd),
                           [at |-> 0, ttlMs |-> DEFAULT_CACHE_TTL_MS,
                            value |-> CachedPoints])
        /\ now \in {1, DEFAULT_CACHE_TTL_MS}
  /\ RouteIdle
  /\ EngineIdle
  /\ EtfIdle
  /\ DashboardIdle

normalizedTicker == toUpperCase(Trim(input.ticker))

cacheKey == buildCacheKey(normalizedTicker, input.startDate, input.endDate)

\* getHistoricalSeries up to the call of fetchWithRetry
GetHistoricalSeries ==
  /\ yahooPc = "idle"
  /\ IF normalizedTicker = <<>>
     THEN /\ output' = Thrown("YahooDataError", "Ticker is required")
          /\ yahooPc' = "thrown"
          /\ UNCHANGED memoryCache
     ELSE LET got == getCached(memoryCache, cacheKey, now)
          IN  /\ memoryCache' = got.cache
              /\ IF got.value # <<>>
                 THEN output' = Returned(got.value[1]) /\ yahooPc' = "returned"
                 ELSE output' = output /\ yahooPc' = "fetch"
  /\ UNCHANGED <<dashboardVars, etfVars, input, attempt, lastError, fetchCalls, now, cacheLog, routeVars, engineVars>>

\* one pass of fetchWithRetry's loop up to the delay
Fetch(result) ==
  /\ yahooPc = "fetch"
  /\ attempt <= Retries
  /\ fetchCalls' = Append(fetchCalls, result)
  /\ IF result = "ok"
     THEN /\ yahooPc' = "json"
          /\ UNCHANGED <<dashboardVars, etfVars, attempt, lastError, output>>
     ELSE /\ lastError' = <<FetchMessage(result)>>
          /\ IF attempt < Retries
             THEN /\ yahooPc' = "delay"
                  /\ UNCHANGED <<dashboardVars, etfVars, attempt, output>>
             ELSE /\ attempt' = attempt + 1
                  /\ output' = Thrown("YahooDataError", FetchMessage(result))
                  /\ yahooPc' = "thrown"
  /\ UNCHANGED <<dashboardVars, etfVars, input, memoryCache, now, cacheLog, routeVars, engineVars>>

\* the timer of the delay fires
Delay ==
  /\ yahooPc = "delay"
  /\ now' = now + RETRY_DELAYS_MS[attempt + 1]
  /\ attempt' = attempt + 1
  /\ yahooPc' = "fetch"
  /\ UNCHANGED <<dashboardVars, etfVars, input, output, lastError, fetchCalls, memoryCache, cacheLog,
                 routeVars, engineVars>>

\* getHistoricalSeries from response.json() on
ReadPayload ==
  /\ yahooPc = "json"
  /\ LET payload == input.payload
         points == PointsOf(payload.rows, input.startDate, input.endDate)
         failed(class, message) ==
           /\ output' = Thrown(class, message)
           /\ yahooPc' = "thrown"
           /\ UNCHANGED <<dashboardVars, etfVars, memoryCache, cacheLog>>
     IN  IF ~payload.json THEN failed("SyntaxError", "Unexpected token")
         ELSE IF payload.error THEN failed("YahooDataError", "Yahoo Finance error")
         ELSE IF payload.rows = <<>>
              THEN failed("YahooDataError", "No price history available")
         ELSE IF points = <<>>
              THEN failed("YahooDataError", "No adjusted close values found")
         ELSE /\ memoryCache' = setCached(memoryCache, cacheKey, points,
                                          DEFAULT_CACHE_TTL_MS, now)
              /\ cacheLog' = With(cacheLog, cacheKey,
                                  [at |-> now, ttlMs |-> DEFAULT_CACHE_TTL_MS,
                                   value |-> points])
              /\ output' = Returned(points)
              /\ yahooPc' = "returned"
  /\ UNCHANGED <<dashboardVars, etfVars, input, attempt, lastError, fetchCalls, now, routeVars, engineVars>>

NextYahoo ==
  \/ GetHistoricalSeries
  \/ \E result \in FetchResults : Fetch(result)
  \/ Delay
  \/ ReadPayload

SpecYahoo == InitYahoo /\ [][NextYahoo]_vars

Failed(i) == fetchCalls[i] # "ok"

\* whether the call has ended with the error fetchWithRetry throws
RequestFailed ==
  /\ output # NotCalled
  /\ ~output[1].ok
  /\ output[1].class = "YahooDataError"
  /\ output[1].message \in {NetworkMessage, StatusMessage}

\* whether the payload holds a price inside the requested range
HasPrice ==
  /\ input.payload.json
  /\ ~input.payload.error
  /\ \E i \in DOMAIN input.payload.rows :
       /\ input.payload.rows[i].close # <<>> \/ input.payload.rows[i].adjclose # <<>>
       /\ input.payload.rows[i].timestamp.date \in input.startDate..input.endDate

\* C15: fetch is called at most 4 times, one call after the other until the first
\* response that is ok; no call follows a success; the request fails with a
\* YahooDataError only after 4 failed calls; a failure followed by a success is
\* exactly 2 calls and, for a payload with prices, a returned series.
C15_RetryUntilOk ==
  /\ Len(fetchCalls) <= 4
  /\ \A i \in DOMAIN fetchCalls : i < Len(fetchCalls) => Failed(i)
  /\ RequestFailed => Len(fetchCalls) = 4 /\ \A i \in DOMAIN fetchCalls : Failed(i)
  /\ (yahooPc \in {"returned", "thrown"} /\ fetchCalls # <<>>
        /\ \A i \in DOMAIN fetchCalls : Failed(i)) => RequestFailed
  /\ (yahooPc \in {"returned", "thrown"} /\ Len(fetchCalls) >= 2
        /\ Failed(1) /\ fetchCalls[2] = "ok")
       => /\ Len(fetchCalls) = 2
          /\ HasPrice => output[1].ok /\ Len(output[1].result) > 0

\* the test's run: a rejected fetch, then a response that is ok, and the two rows of
\* the payload returned
C15_Witness ==
  /\ fetchCalls = <<"rejected", "ok">>
  /\ yahooPc = "returned"
  /\ output[1].ok
  /\ Len(output[1].result) = 2
  /\ output[1].result[1].close = <<199, 2>>
  /\ output[1].result[1].adjustedClose = R(100)

----------------------------------------------------------------------------
(* The calls of getHistoricalSeries                                        *)

\* the upper-cased tickers of the allocations with a positive weight, and of the
\* benchmark
NeededTickers ==
  {toUpperCase(request.allocations[i].ticker) :
     i \in {j \in DOMAIN request.allocations :
              RGt(request.allocations[j].targetWeight, Zero)}}
    \cup {toUpperCase(request.benchmarkTicker)}

CallsFor(ticker) == Cardinality({i \in DOMAIN fetchLog : fetchLog[i] = ticker})

\* C17: in every run getHistoricalSeries is called exactly once for each distinct
\* upper-cased ticker of the positive-weight allocations and the benchmark, and for
\* no other ticker; a call that failed is not made again.
C17_OneCallPerTicker ==
  request # <<>> =>
    LET fetching == \E i \in DOMAIN request.allocations :
                      RGt(request.allocations[i].targetWeight, Zero)
    IN  /\ \A i \in DOMAIN fetchLog : fetchLog[i] \in NeededTickers
        /\ \A ticker \in NeededTickers :
             CallsFor(ticker) = IF fetching THEN runNo ELSE 0

\* a run that failed on its only call: the benchmark is the allocation, and the
\* other allocation has weight 0
C17_Witness ==
  /\ pc \in {"settled", "responded"}
  /\ runNo = 1
  /\ outcome = Thrown("YahooDataError", outcome[1].message)
  /\ fetchLog = <<SPY>>
  /\ Len(request.allocations) = 2
  /\ request.benchmarkTicker = SPY

----------------------------------------------------------------------------
(* A run beside other runs of the same process                             *)
(*                                                                         *)
(* The runs of one process take turns at their awaits: of request.json(),  *)
(* of the getHistoricalSeries promises, and between two requests.  What a  *)
(* run shares with the others is memoryCache, so the other runs are the    *)
(* calls of getCached and setCached they make while this run waits.        *)

\* whether the run is at an await, where another run can take its turn
Awaiting == pc \in {"post", "run", "fetch", "responded"}

\* the range of another request, and what Yahoo holds for it
OtherStart == 20240401

OtherSeries == Flat(<<20240401, 20240402, 20240501>>, R(7))

\* the lookups and stores of the other runs: a series of this run's range, which is
\* the one this run is given, or the series of another range
OtherStores == {<<SPY, 20240301>>, <<SPY, OtherStart>>, <<QQQ, 20240301>>}

OtherRunLooksUp(ticker, start) ==
  /\ Awaiting
  /\ memoryCache' = getCached(memoryCache, buildCacheKey(ticker, start, 20240531), now).cache
  /\ UNCHANGED <<dashboardVars, etfVars, yahooPc, attempt, lastError, fetchCalls, now, cacheLog, harnessVars,
                 routeVars, engineVars>>

OtherRunStores(ticker, start) ==
  LET key == buildCacheKey(ticker, start, 20240531)
      points == IF start = OtherStart THEN OtherSeries ELSE env.market[ticker]
  IN  /\ Awaiting
      /\ memoryCache' = setCached(memoryCache, key, points, DEFAULT_CACHE_TTL_MS, now)
      /\ cacheLog' = With(cacheLog, key, [at |-> now, ttlMs |-> DEFAULT_CACHE_TTL_MS,
                                          value |-> points])
      /\ UNCHANGED <<dashboardVars, etfVars, yahooPc, attempt, lastError, fetchCalls, now, harnessVars,
                     routeVars, engineVars>>

\* the lifetime of a cached series passes while the run waits
DayPasses ==
  /\ Awaiting
  /\ now < DEFAULT_CACHE_TTL_MS
  /\ now' = now + DEFAULT_CACHE_TTL_MS
  /\ UNCHANGED <<dashboardVars, etfVars, yahooPc, attempt, lastError, fetchCalls, memoryCache, cacheLog,
                 harnessVars, routeVars, engineVars>>

ConcurrentBodies ==
  {EngineBody(<<Alloc(SPY, R(50), Zero), Alloc(QQQ, R(50), Zero)>>,
              <<R(100), R(MONTHLY_LIVING_COST + 60), R(30)>>, Zero, "to_cash", SPY)}

\* two trading days, SPY doubling on the second
TwoDayMarket ==
  Market(Series(<<20240328, 20240401>>, Rats(<<10, 20>>)), Flat(<<20240328, 20240401>>, R(10)),
         Flat(<<20240328, 20240401>>, R(10)))

InitConcurrent ==
  /\ Started
  /\ \E body \in ConcurrentBodies, m \in {TwoDayMarket},
        f \in {{}, {"YahooDataError"}} :
       Posted(body, Environment("POST", f, m))

NextConcurrent ==
  \/ Next
  \/ \E other \in OtherStores : OtherRunLooksUp(other[1], other[2])
  \/ \E other \in OtherStores : OtherRunStores(other[1], other[2])
  \/ DayPasses

SpecConcurrent == InitConcurrent /\ [][NextConcurrent]_vars

\* C18: whatever the other runs do to the cache and whenever they do it, the run
\* reads the series of its own tickers and range, the entries of its keys hold these
\* series, and a run returns the result the run before it returned.
C18_SameResultBesideOthers ==
  /\ \A ticker \in DOMAIN historyMap : historyMap[ticker] = env.market[ticker]
  /\ request # <<>> =>
       \A ticker \in Range(Tickers(request)) :
         KeyOf(request, ticker) \in DOMAIN memoryCache
           => memoryCache[KeyOf(request, ticker)].value = env.market[ticker]
  /\ (Succeeded /\ runNo = 2 /\ firstResult # <<>>) => outcome = Returned(firstResult[1])

\* a second run that returned without a request of its own for SPY, whose series
\* another run had stored, while the cache also holds SPY's series of another range
C18_Witness ==
  /\ Succeeded
  /\ runNo = 2
  /\ firstResult # <<>>
  /\ buildCacheKey(SPY, OtherStart, 20240531) \in DOMAIN memoryCache
  /\ buildCacheKey(SPY, 20240301, 20240531) \in DOMAIN cacheLog
  /\ cacheLog[buildCacheKey(SPY, 20240301, 20240531)].at = DEFAULT_CACHE_TTL_MS
  /\ now = DEFAULT_CACHE_TTL_MS

----------------------------------------------------------------------------
(* calculateMaxDrawdown and calculateDrawdownSeries on any list of values  *)

MaxDrawdownLen == 4

\* values of a series: those of the metrics test, 0 and a negative number
DrawdownValues == {R(-1), Zero, R(90), R(100), R(120), R(130)}

InitDrawdown ==
  /\ input \in BoundedSeq(DrawdownValues, MaxDrawdownLen)
  /\ output = [maxDrawdown |-> NotCalled, series |-> NotCalled]
  /\ RouteIdle
  /\ EngineIdle
  /\ SourceIdle
  /\ EtfIdle
  /\ DashboardIdle

CallCalculateMaxDrawdown ==
  /\ output.maxDrawdown = NotCalled
  /\ output' = [output EXCEPT !.maxDrawdown = <<calculateMaxDrawdown(input)>>]
  /\ UNCHANGED <<dashboardVars, etfVars, sourceVars, input, routeVars, engineVars>>

CallCalculateDrawdownSeries ==
  /\ output.series = NotCalled
  /\ output' = [output EXCEPT !.series = <<calculateDrawdownSeries(input)>>]
  /\ UNCHANGED <<dashboardVars, etfVars, sourceVars, input, routeVars, engineVars>>

NextDrawdown == CallCalculateMaxDrawdown \/ CallCalculateDrawdownSeries

SpecDrawdown == InitDrawdown /\ [][NextDrawdown]_vars

\* the largest of the first i values
RunningPeak(i) ==
  CHOOSE peak \in {input[j] : j \in 1..i} : \A j \in 1..i : RLe(input[j], peak)

\* value / runningPeak - 1, and 0 while the peak is 0
DrawdownAt(i) ==
  IF RunningPeak(i) = Zero THEN Zero ELSE RSub(RDiv(input[i], RunningPeak(i)), One)

\* C19: calculateMaxDrawdown is the least value / runningPeak - 1 over the points
\* (0 for no points); it is never positive, it is 0 for a series that never falls,
\* and it is the least element of calculateDrawdownSeries, which has one element
\* per value, the first of them 0; for 100, 120, 90, 130 it is -0.25.
C19_MaxDrawdown ==
  /\ output.maxDrawdown # NotCalled =>
       LET maxDrawdown == output.maxDrawdown[1]
       IN  /\ input = <<>> => maxDrawdown = Zero
           /\ input # <<>> =>
                /\ \E i \in DOMAIN input : maxDrawdown = DrawdownAt(i)
                /\ \A i \in DOMAIN input : RLe(maxDrawdown, DrawdownAt(i))
           /\ RLe(maxDrawdown, Zero)
           /\ (\A i \in 1..(Len(input) - 1) : RLe(input[i], input[i + 1]))
                => maxDrawdown = Zero
           /\ input = <<R(100), R(120), R(90), R(130)>> => maxDrawdown = <<-1, 4>>
  /\ output.series # NotCalled =>
       LET series == output.series[1]
       IN  /\ Len(series) = Len(input)
           /\ input # <<>> => series[1] = Zero
           /\ \A i \in DOMAIN input : series[i] = DrawdownAt(i)
  /\ (output.maxDrawdown # NotCalled /\ output.series # NotCalled /\ input # <<>>) =>
       /\ \E i \in DOMAIN input : output.series[1][i] = output.maxDrawdown[1]
       /\ \A i \in DOMAIN input : RLe(output.maxDrawdown[1], output.series[1][i])

\* the series of the metrics test, both functions called
C19_Witness ==
  /\ input = <<R(100), R(120), R(90), R(130)>>
  /\ output.maxDrawdown = <<<<-1, 4>>>>
  /\ output.series # NotCalled
  /\ output.series[1][3] = <<-1, 4>>
  /\ output.series[1][4] = Zero

----------------------------------------------------------------------------
(* calculateTimeWeightedDailyReturns on any values and flows               *)

MaxReturnsLen == 3

ReturnValues == {R(-100), Zero, R(100), R(110), R(170)}

ReturnFlows == {Zero, R(50), R(100)}

InitReturns ==
  /\ input \in [values : BoundedSeq(ReturnValues, MaxReturnsLen),
                netFlows : BoundedSeq(ReturnFlows, MaxReturnsLen)]
  /\ output = NotCalled
  /\ RouteIdle
  /\ EngineIdle
  /\ SourceIdle
  /\ EtfIdle
  /\ DashboardIdle

CallCalculateTimeWeightedDailyReturns ==
  /\ output = NotCalled
  /\ output' = <<calculateTimeWeightedDailyReturns(input.values, input.netFlows)>>
  /\ UNCHANGED <<dashboardVars, etfVars, sourceVars, input, routeVars, engineVars>>

NextReturns == CallCalculateTimeWeightedDailyReturns

SpecReturns == InitReturns /\ [][NextReturns]_vars

\* C20: for N values there are N - 1 returns (none for N <= 1); the return of day t
\* is (V[t] - V[t-1] - flow[t]) / V[t-1] when V[t-1] > 0 and 0 otherwise, with 0
\* for a flow that is missing; the flow of the first day is in none of them; for
\* 100, 110, 170 with flows 100, 0, 50 the returns are 0.1 and 1/11.
C20_TimeWeightedReturns ==
  output # NotCalled =>
    LET V == input.values
        N == Len(V)
        returns == output[1]
        flow(t) == IF t <= Len(input.netFlows) THEN input.netFlows[t] ELSE Zero
    IN  /\ Len(returns) = IF N <= 1 THEN 0 ELSE N - 1
        /\ \A t \in 2..N :
             returns[t - 1] =
               IF RGt(V[t - 1], Zero)
               THEN RDiv(RSub(RSub(V[t], V[t - 1]), flow(t)), V[t - 1])
               ELSE Zero
        /\ \A first \in ReturnFlows :
             input.netFlows # <<>> =>
               returns = calculateTimeWeightedDailyReturns(
                           V, [input.netFlows EXCEPT ![1] = first])
        /\ (V = <<R(100), R(110), R(170)>> /\ input.netFlows = <<R(100), Zero, R(50)>>)
             => returns = <<<<1, 10>>, <<1, 11>>>>

\* the values and flows of the metrics test
C20_Witness ==
  /\ input.values = <<R(100), R(110), R(170)>>
  /\ input.netFlows = <<R(100), Zero, R(50)>>
  /\ output = <<<<<<1, 10>>, <<1, 11>>>>>>

----------------------------------------------------------------------------
(* GET /api/etfs: src/unnamed/part_002, with searchEtfs                    *)
(* (src/src/lib/data/etfs.ts) and expandKoreanAliasTerms                   *)
(* (src/unnamed/part_004)                                                  *)
(*                                                                         *)
(* An EtfInfo is its ticker and name; a Hangul syllable is one element of  *)
(* a string, written in Latin letters.                                     *)

EtfInfo(ticker, name) == [ticker |-> ticker, name |-> name]

\* the first entries of ETF_UNIVERSE
ETF_UNIVERSE ==
  <<EtfInfo(<<"S", "P", "Y">>,
            <<"S", "P", "D", "R", " ", "S", "&", "P", " ", "5", "0", "0", " ",
            "E", "T", "F", " ", "T", "r", "u", "s", "t">>),
    EtfInfo(<<"V", "O", "O">>,
            <<"V", "a", "n", "g", "u", "a", "r", "d", " ", "S", "&", "P", " ",
            "5", "0", "0", " ", "E", "T", "F">>),
    EtfInfo(<<"I", "V", "V">>,
            <<"i", "S", "h", "a", "r", "e", "s", " ", "C", "o", "r", "e", " ",
            "S", "&", "P", " ", "5", "0", "0", " ", "E", "T", "F">>),
    EtfInfo(<<"Q", "Q", "Q">>,
            <<"I", "n", "v", "e", "s", "c", "o", " ", "Q", "Q", "Q", " ", "T",
            "r", "u", "s", "t", " ", "(", "N", "A", "S", "D", "A", "Q", "-", "1",
            "0", "0", ")">>),
    EtfInfo(<<"Q", "Q", "Q", "M">>,
            <<"I", "n", "v", "e", "s", "c", "o", " ", "N", "A", "S", "D", "A",
            "Q", " ", "1", "0", "0", " ", "E", "T", "F">>),
    EtfInfo(<<"O", "N", "E", "Q">>,
            <<"F", "i", "d", "e", "l", "i", "t", "y", " ", "N", "A", "S", "D",
            "A", "Q", " ", "C", "o", "m", "p", "o", "s", "i", "t", "e", " ", "I",
            "n", "d", "e", "x", " ", "E", "T", "F">>),
    EtfInfo(<<"B", "R", "K", "-", "B">>,
            <<"B", "e", "r", "k", "s", "h", "i", "r", "e", " ", "H", "a", "t",
            "h", "a", "w", "a", "y", " ", "I", "n", "c", ".", " ", "C", "l", "a",
            "s", "s", " ", "B">>),
    EtfInfo(<<"P", "L", "T", "R">>,
            <<"P", "a", "l", "a", "n", "t", "i", "r", " ", "T", "e", "c", "h",
            "n", "o", "l", "o", "g", "i", "e", "s", " ", "I", "n", "c", ".">>)>>

HangulSyllables == {"pal", "lan", "ti", "eo", "na", "seu", "dak", "bi"}

\* four entries of KOREAN_SEARCH_ALIASES
KOREAN_SEARCH_ALIASES ==
  <<[alias |-> <<"pal", "lan", "ti", "eo">>,
     terms |-> <<<<"P", "L", "T", "R">>, <<"P", "a", "l", "a", "n", "t", "i", "r">>>>],
    [alias |-> <<"na", "seu", "dak">>,
     terms |-> <<<<"Q", "Q", "Q">>, <<"Q", "Q", "Q", "M">>, <<"O", "N", "E", "Q">>,
                 <<"N", "A", "S", "D", "A", "Q", " ", "1", "0", "0">>>>],
    [alias |-> <<"na", "seu", "dak", "1", "0", "0">>,
     terms |-> <<<<"Q", "Q", "Q">>, <<"Q", "Q", "Q", "M">>,
                 <<"N", "A", "S", "D", "A", "Q", " ", "1", "0", "0">>>>],
    [alias |-> <<"s", "n", "p", "5", "0", "0">>,
     terms |-> <<<<"S", "P", "Y">>, <<"V", "O", "O">>, <<"I", "V", "V">>, <<"S", "&", "P", " ", "5", "0", "0">>>>]>>

ToLowerChar(c) ==
  IF \E i \in DOMAIN UpperLetters : UpperLetters[i] = c
  THEN LowerLetters[CHOOSE i \in DOMAIN UpperLetters : UpperLetters[i] = c]
  ELSE c

toLowerCase(str) == [i \in DOMAIN str |-> ToLowerChar(str[i])]

\* String.prototype.includes
Includes(str, part) ==
  \E k \in 0..(Len(str) - Len(part)) : SubSeq(str, k + 1, k + Len(part)) = part

\* Array.prototype.slice(0, n)
Slice(list, n) == SubSeq(list, 1, IF Len(list) < n THEN Len(list) ELSE n)

RECURSIVE Concat(_)
Concat(lists) == IF lists = <<>> THEN <<>> ELSE Head(lists) \o Concat(Tail(lists))

\* value.toLowerCase().replaceAll(" ", "").trim()
normalizeAliasText(value) == Trim(SelectSeq(toLowerCase(value), LAMBDA c : c # " "))

containsHangul(value) == \E i \in DOMAIN value : value[i] \in HangulSyllables

expandKoreanAliasTerms(query) ==
  LET normalized == normalizeAliasText(query)
      matches(entry) ==
        LET alias == normalizeAliasText(entry.alias)
        IN  alias # <<>> /\ (Includes(alias, normalized) \/ Includes(normalized, alias))
  IN  IF normalized = <<>> THEN <<>>
      ELSE Unique(Concat([i \in DOMAIN KOREAN_SEARCH_ALIASES |->
                            IF matches(KOREAN_SEARCH_ALIASES[i])
                            THEN KOREAN_SEARCH_ALIASES[i].terms ELSE <<>>]))

searchEtfs(query) ==
  LET normalized == toUpperCase(Trim(query))
  IN  IF normalized = <<>> THEN ETF_UNIVERSE
      ELSE SelectSeq(ETF_UNIVERSE,
                     LAMBDA etf : Includes(etf.ticker, normalized)
                                    \/ Includes(toUpperCase(etf.name), normalized))

\* mutant of dedupeByTicker: every item is kept
KeepEveryItem(items) == items

\* the items whose ticker no earlier item has
RECURSIVE dedupeByTicker(_)
dedupeByTicker(items) ==
  IF items = <<>> THEN <<>>
  ELSE LET rest == dedupeByTicker(SubSeq(items, 1, Len(items) - 1))
           last == items[Len(items)]
       IN  IF \E i \in DOMAIN rest : rest[i].ticker = last.ticker THEN rest
           ELSE Append(rest, last)

collectLocalMatches(terms) ==
  dedupeByTicker(Concat([i \in DOMAIN terms |-> searchEtfs(terms[i])]))

SeedLimit == 50
LocalLimit == 30
YahooTermLimit == 4
SearchLimit == 40
MergedLimit == 60

toYahooTerms(query, aliasTerms) ==
  LET terms == Unique((IF containsHangul(query) THEN <<>> ELSE <<query>>)
                        \o SelectSeq(aliasTerms, LAMBDA term : ~containsHangul(term)))
  IN  Slice(SelectSeq(terms, LAMBDA term : Len(Trim(term)) > 0), YahooTermLimit)

\* NextResponse.json({query, count, items})
EtfResponse(query, items) ==
  <<[ok |-> TRUE, status |-> 200, query |-> query, count |-> Len(items), items |-> items]>>

\* the locals of GET for the query of the request
normalizedQuery == Trim(input.query)
aliasTerms == expandKoreanAliasTerms(normalizedQuery)
localMatches == Slice(collectLocalMatches(<<normalizedQuery>> \o aliasTerms), LocalLimit)
yahooTerms == toYahooTerms(normalizedQuery, aliasTerms)

\* what searchSymbols may answer: nothing, the items of the route test, or as many
\* items as its limit allows, all of upper-case tickers that differ
Numbered(n) == <<"T", Digit(n \div 100), Digit(n \div 10), Digit(n)>>

ManyItems(from) ==
  [i \in 1..SearchLimit |-> EtfInfo(Numbered(from + i), Numbered(from + i))]

SearchLists ==
  {<<>>,
   <<EtfInfo(<<"P", "L", "T", "R">>, <<"P", "a", "l", "a", "n", "t", "i", "r">>),
     EtfInfo(<<"S", "O", "X", "X">>, <<"i", "S", "h", "a", "r", "e", "s">>)>>,
   <<EtfInfo(QQQ, QQQ), EtfInfo(<<"T", "Q", "Q", "Q">>, <<"P", "r", "o">>)>>,
   ManyItems(0), ManyItems(20)}

SearchOutcomes ==
  {[ok |-> FALSE, class |-> c, items |-> <<>>] : c \in {"YahooDataError", "SyntaxError"}}
    \cup {[ok |-> TRUE, class |-> "", items |-> items] : items \in SearchLists}

EtfQueries ==
  {QQQ, <<" ", "q", "q", "q">>, <<"s", "n", "p", "5", "0", "0">>, <<"na", "seu", "dak">>,
   <<"bi">>, <<"z", "z">>, <<" ">>, <<>>}

InitEtf ==
  /\ input \in [query : EtfQueries]
  /\ output = NotCalled
  /\ etfPc = "idle"
  /\ yahooMatches = <<>>
  /\ searchLog = <<>>
  /\ RouteIdle
  /\ EngineIdle
  /\ SourceIdle
  /\ DashboardIdle

\* GET up to the loop over the Yahoo terms
EtfGet ==
  /\ etfPc = "idle"
  /\ IF normalizedQuery = <<>>
     THEN /\ output' = EtfResponse(input.query, Slice(ETF_UNIVERSE, SeedLimit))
          /\ etfPc' = "done"
     ELSE /\ output' = output
          /\ etfPc' = "search"
  /\ UNCHANGED <<dashboardVars, yahooMatches, searchLog, input, sourceVars, routeVars, engineVars>>

\* one pass of the loop: searchSymbols(term, 40) returns or throws
Search(answer) ==
  /\ etfPc = "search"
  /\ Len(searchLog) < Len(yahooTerms)
  /\ searchLog' = Append(searchLog, [term |-> yahooTerms[Len(searchLog) + 1],
                                     answer |-> answer])
  /\ IF answer.ok
     THEN /\ yahooMatches' = yahooMatches \o answer.items
          /\ UNCHANGED <<dashboardVars, output, etfPc>>
     ELSE IF answer.class = "YahooDataError"
          THEN UNCHANGED <<dashboardVars, yahooMatches, output, etfPc>>
          ELSE /\ output' = Thrown(answer.class, "search failed")
               /\ etfPc' = "done"
               /\ UNCHANGED yahooMatches
  /\ UNCHANGED <<dashboardVars, input, sourceVars, routeVars, engineVars>>

\* GET after the loop
EtfRespond ==
  /\ etfPc = "search"
  /\ Len(searchLog) = Len(yahooTerms)
  /\ output' = EtfResponse(input.query,
                           Slice(dedupeByTicker(localMatches \o yahooMatches), MergedLimit))
  /\ etfPc' = "done"
  /\ UNCHANGED <<dashboardVars, yahooMatches, searchLog, input, sourceVars, routeVars, engineVars>>

NextEtf ==
  \/ EtfGet
  \/ \E answer \in SearchOutcomes : Search(answer)
  \/ EtfRespond

SpecEtf == InitEtf /\ [][NextEtf]_vars

SearchFailed(class) ==
  \E i \in DOMAIN searchLog : ~searchLog[i].answer.ok /\ searchLog[i].answer.class = class

TickersOf(items) == {items[i].ticker : i \in DOMAIN items}

\* the tickers the searches that returned have found
FoundTickers ==
  UNION {TickersOf(searchLog[i].answer.items) : i \in {j \in DOMAIN searchLog : searchLog[j].answer.ok}}

\* C21: when searches fail with YahooDataError and no search fails otherwise, GET
\* answers 200 with every local match, with nothing but local matches and the items
\* of the searches that returned (all of them when they fit), without a ticker
\* twice and with at most 60 items; GET fails only when a search failed with
\* another error.
C21_LocalMatchesSurvive ==
  etfPc = "done" =>
    /\ ~output[1].ok <=> SearchFailed("SyntaxError")
    /\ output[1].ok =>
         LET items == output[1].items
         IN  /\ output[1].status = 200
             /\ output[1].count = Len(items)
             /\ Len(items) <= 60
             /\ \A i, j \in DOMAIN items : items[i].ticker = items[j].ticker => i = j
             /\ normalizedQuery # <<>> =>
                  /\ TickersOf(localMatches) \subseteq TickersOf(items)
                  /\ TickersOf(items) \subseteq TickersOf(localMatches) \cup FoundTickers
                  /\ Cardinality(TickersOf(localMatches) \cup FoundTickers) <= 60
                       => TickersOf(items) = TickersOf(localMatches) \cup FoundTickers

\* an alias query, searches of which one failed, and 200 with the local matches
\* and the items of the other
C21_Witness ==
  /\ etfPc = "done"
  /\ output[1].ok
  /\ input.query = <<"na", "seu", "dak">>
  /\ SearchFailed("YahooDataError")
  /\ \E i \in DOMAIN searchLog : searchLog[i].answer.ok /\ Len(searchLog[i].answer.items) = 2
  /\ QQQ \in TickersOf(output[1].items)
  /\ <<"S", "O", "X", "X">> \in TickersOf(output[1].items)

----------------------------------------------------------------------------
(* Dashboard: src/src/components/simulator-dashboard.tsx                   *)
(*                                                                         *)
(* The React state of SimulatorDashboard is held in the variables          *)
(* basePortfolio .. isRunning; a setState call is applied to them at once, *)
(* which gives the value React computes from its update queue at the next  *)
(* render.  A handler reads the values of the render that created it:      *)
(* these are kept in `rendered`, and Render replaces them and runs the     *)
(* effects.  Amounts are KRW, weights are percents, both exact rationals.  *)

DEFAULT_MONTHLY_SALARY == 2500000

DEFAULT_MINIMUM_CASH_RESERVE == 500000

MAX_COMPARE_TARGETS == 3

\* `today` and isoYearsAgo(5) of the day the dashboard is opened
DashboardToday == 20260105

DashboardFiveYearsAgo == 20210105

AllocationInput(ticker, targetWeight) == [ticker |-> ticker, targetWeight |-> targetWeight]

\* the weights given, one per ticker (the branch of createDefaultPortfolio its two callers take)
createDefaultPortfolio(tickers, startDate, endDate, weights) ==
  [startDate |-> startDate,
   endDate |-> endDate,
   initialAmount |-> R(10000000),
   monthlySalary |-> R(DEFAULT_MONTHLY_SALARY),
   monthlyContribution |-> R(500000),
   minimumCashReserve |-> R(DEFAULT_MINIMUM_CASH_RESERVE),
   allocations |-> [i \in 1..Len(tickers) |-> AllocationInput(tickers[i], weights[i])]]

\* the id (time and random digits) is read by nothing but React's keys
createCompareTarget(portfolio) == [portfolio |-> portfolio]

defaultBasePortfolio ==
  createDefaultPortfolio(<<"SPY", "QQQ">>, DashboardFiveYearsAgo, DashboardToday, <<<<95, 2>>, <<95, 2>>>>)

defaultComparePortfolio ==
  createDefaultPortfolio(<<"QQQ">>, DashboardFiveYearsAgo, DashboardToday, <<R(100)>>)

getWeightSum(allocations) == RSum([i \in DOMAIN allocations |-> allocations[i].targetWeight])

getCashWeight(allocations) == RMax(Zero, RSub(R(100), getWeightSum(allocations)))

getPortfolioComposition(portfolio) ==
  LET stockWeight == getWeightSum(portfolio.allocations)
      cashWeight == getCashWeight(portfolio.allocations)
      stockAmount == RDiv(RMul(portfolio.initialAmount, stockWeight), R(100))
      cashAmount == RMax(Zero, RSub(portfolio.initialAmount, stockAmount))
  IN  [stockWeight |-> stockWeight, cashWeight |-> cashWeight,
       stockAmount |-> stockAmount, cashAmount |-> cashAmount]

hasAtLeastOnePositiveWeight(allocations) ==
  \E i \in DOMAIN allocations : RGt(allocations[i].targetWeight, Zero)

\* null is <<>>, a message is <<text>>; the texts are the Korean ones in English
validatePortfolio(portfolio) ==
  IF portfolio.startDate >= portfolio.endDate
    THEN <<"start date must be before end date">>
  ELSE IF RLt(portfolio.minimumCashReserve, Zero)
    THEN <<"minimum cash must be 0 or more">>
  ELSE IF Len(portfolio.allocations) = 0
    THEN <<"at least one ticker is needed">>
  ELSE IF RGt(getWeightSum(portfolio.allocations), <<2001, 20>>)
    THEN <<"stock weight must be 100% or less">>
  ELSE IF ~hasAtLeastOnePositiveWeight(portfolio.allocations)
    THEN <<"at least one ticker needs a weight above 0%">>
  ELSE <<>>

\* validateBasePortfolio without its checks of the cash
ValidateBaseAsCompare(portfolio) == validatePortfolio(portfolio)

validateBasePortfolio(portfolio) ==
  LET commonError == validatePortfolio(portfolio)
      composition == getPortfolioComposition(portfolio)
      half == <<1, 2>>
  IN  IF commonError # <<>> THEN commonError
      ELSE IF RLt(portfolio.minimumCashReserve, R(DEFAULT_MINIMUM_CASH_RESERVE))
        THEN <<"minimum cash reserve must be 500,000 or more">>
      ELSE IF RGt(RAbs(RSub(RAdd(composition.stockWeight, composition.cashWeight), R(100))), <<1, 20>>)
        THEN <<"stock and cash weights must add up to 100%">>
      ELSE IF RLt(RAdd(composition.cashAmount, half), R(DEFAULT_MINIMUM_CASH_RESERVE))
        THEN <<"initial cash must be 500,000 or more">>
      ELSE IF RLt(RAdd(composition.cashAmount, half), portfolio.minimumCashReserve)
        THEN <<"initial cash must be at least the minimum cash reserve">>
      ELSE <<>>

\* roundWeight leaves the weights of this model, which have two decimals, as they are
buildSimulationPayload(portfolio, policy) ==
  [startDate |-> portfolio.startDate,
   endDate |-> portfolio.endDate,
   initialAmount |-> portfolio.initialAmount,
   monthlySalary |-> portfolio.monthlySalary,
   monthlyContribution |-> portfolio.monthlyContribution,
   minimumCashReserve |-> portfolio.minimumCashReserve,
   dividendPolicy |-> policy,
   allocations |-> SelectSeq(portfolio.allocations, LAMBDA a : RGt(a.targetWeight, Zero)),
   rebalanceFrequency |-> "quarterly",
   contributionRule |-> "first_trading_day",
   benchmarkTicker |-> "SPY",
   riskFreeRate |-> <<1, 50>>]

getCompareTargetLabel(target, position) == <<"compare portfolio", position + 1>>

\* list.filter((_, index) => index !== at), indexes from 0
FilterOutIndex(list, at) ==
  LET kept == {i \in DOMAIN list : i - 1 # at}
      F[i \in 0..Len(list)] ==
        IF i = 0 THEN <<>> ELSE IF i \in kept THEN Append(F[i - 1], list[i]) ELSE F[i - 1]
  IN  F[Len(list)]

\* what the user can type into "my portfolio": the default, the test's 100% SPY,
\* a reserve below 500,000, a reserve above the initial cash, an initial cash of
\* 499,999.6, and a start date that is not before the end date
BasePortfolios ==
  {defaultBasePortfolio,
   [defaultBasePortfolio EXCEPT !.allocations =
      <<AllocationInput("SPY", R(100)), AllocationInput("QQQ", Zero)>>],
   [defaultBasePortfolio EXCEPT !.minimumCashReserve = R(400000)],
   [defaultBasePortfolio EXCEPT !.minimumCashReserve = R(600000)],
   [defaultBasePortfolio EXCEPT !.initialAmount = R(1249999),
                                !.allocations = <<AllocationInput("SPY", R(60))>>],
   [defaultBasePortfolio EXCEPT !.startDate = DashboardToday]}

\* what the user can type into the weights of a comparison portfolio
CompareAllocations ==
  {<<AllocationInput("QQQ", R(100))>>,
   <<AllocationInput("QQQ", <<5003, 50>>)>>}

\* handlers that may run on the values of one render
MaxStale == 2

\* requests to /api/simulations/run in one behaviour
MaxCalls == 4

\* the values a render hands to its handlers; `batch` is the number of handlers
\* the event loop lets run before the next render, `handled` how many have run
Closure(batch) ==
  [basePortfolio |-> basePortfolio, compareTargets |-> compareTargets,
   activeCompareIndex |-> activeCompareIndex, isRunning |-> isRunning,
   handled |-> 0, batch |-> batch]

\* the lists of comparison portfolios a run of SpecDashboard starts with
CompareLists ==
  {<<createCompareTarget(defaultComparePortfolio)>>,
   <<createCompareTarget(defaultComparePortfolio), createCompareTarget(defaultComparePortfolio)>>}

Mounted(targets, batch) ==
  /\ basePortfolio = defaultBasePortfolio
  /\ compareTargets = targets
  /\ activeCompareIndex = 0
  /\ baseResult = <<>>
  /\ compareResults = <<>>
  /\ errorMessage = <<>>
  /\ isRunning = FALSE
  /\ rendered = Closure(batch)
  /\ simulationCallCount = 0
  /\ inFlight = <<>>
  /\ HarnessIdle
  /\ RouteIdle
  /\ EngineIdle
  /\ SourceIdle
  /\ EtfIdle

\* every handler is followed by a render before the next one runs
InitDashboard == \E targets \in CompareLists : Mounted(targets, 1)

\* up to MaxStale handlers run on the values of the same render
InitPager == Mounted(<<createCompareTarget(defaultComparePortfolio)>>, MaxStale)

Handled == [rendered EXCEPT !.handled = @ + 1]

\* onChangePortfolio of the editor of "my portfolio"
ChangeBasePortfolio(portfolio) ==
  /\ rendered.handled < rendered.batch
  /\ basePortfolio' = portfolio
  /\ rendered' = Handled
  /\ UNCHANGED <<compareTargets, activeCompareIndex, baseResult, compareResults, errorMessage,
                 isRunning, simulationCallCount, inFlight>>
  /\ UNCHANGED <<etfVars, sourceVars, harnessVars, routeVars, engineVars>>

\* updateActiveComparePortfolio; the dates of this editor are disabled
ChangeComparePortfolio(allocations) ==
  /\ rendered.handled < rendered.batch
  /\ compareTargets' =
       [i \in DOMAIN compareTargets |->
          IF i - 1 # rendered.activeCompareIndex THEN compareTargets[i]
          ELSE [compareTargets[i] EXCEPT !.portfolio.allocations = allocations]]
  /\ rendered' = Handled
  /\ UNCHANGED <<basePortfolio, activeCompareIndex, baseResult, compareResults, errorMessage,
                 isRunning, simulationCallCount, inFlight>>
  /\ UNCHANGED <<etfVars, sourceVars, harnessVars, routeVars, engineVars>>

addCompareTarget ==
  /\ rendered.handled < rendered.batch
  /\ rendered' = Handled
  /\ IF Len(rendered.compareTargets) >= MAX_COMPARE_TARGETS
       THEN UNCHANGED <<errorMessage, compareTargets, activeCompareIndex>>
       ELSE /\ errorMessage' = <<>>
            /\ compareTargets' =
                 Slice(Append(compareTargets, createCompareTarget(rendered.basePortfolio)),
                       MAX_COMPARE_TARGETS)
            /\ activeCompareIndex' = Len(rendered.compareTargets)
  /\ UNCHANGED <<basePortfolio, baseResult, compareResults, isRunning, simulationCallCount, inFlight>>
  /\ UNCHANGED <<etfVars, sourceVars, harnessVars, routeVars, engineVars>>

removeActiveCompareTarget ==
  /\ rendered.handled < rendered.batch
  /\ rendered' = Handled
  /\ IF Len(rendered.compareTargets) <= 1
       THEN UNCHANGED <<compareTargets, compareResults, activeCompareIndex>>
       ELSE /\ compareTargets' = FilterOutIndex(compareTargets, rendered.activeCompareIndex)
            /\ compareResults' = FilterOutIndex(compareResults, rendered.activeCompareIndex)
            /\ activeCompareIndex' = IF activeCompareIndex - 1 > 0 THEN activeCompareIndex - 1 ELSE 0
  /\ UNCHANGED <<basePortfolio, baseResult, errorMessage, isRunning, simulationCallCount, inFlight>>
  /\ UNCHANGED <<etfVars, sourceVars, harnessVars, routeVars, engineVars>>

moveCompareIndex(direction) ==
  /\ rendered.handled < rendered.batch
  /\ rendered' = Handled
  /\ IF Len(rendered.compareTargets) <= 1
       THEN UNCHANGED activeCompareIndex
       ELSE activeCompareIndex' =
              IF direction = "prev"
                THEN IF activeCompareIndex = 0 THEN Len(rendered.compareTargets) - 1
                     ELSE activeCompareIndex - 1
                ELSE IF activeCompareIndex = Len(rendered.compareTargets) - 1 THEN 0
                     ELSE activeCompareIndex + 1
  /\ UNCHANGED <<basePortfolio, compareTargets, baseResult, compareResults, errorMessage,
                 isRunning, simulationCallCount, inFlight>>
  /\ UNCHANGED <<etfVars, sourceVars, harnessVars, routeVars, engineVars>>

\* index (from 0) of the first comparison portfolio validatePortfolio rejects, -1 if none
FirstCompareError(targets) ==
  LET bad == {i \in DOMAIN targets : validatePortfolio(targets[i].portfolio) # <<>>}
  IN  IF bad = {} THEN -1 ELSE (CHOOSE i \in bad : \A j \in bad : i <= j) - 1

\* runSimulation up to its first await; the button is disabled while isRunning
runSimulationClick ==
  /\ rendered.handled < rendered.batch
  /\ ~rendered.isRunning
  /\ simulationCallCount + 1 + Len(rendered.compareTargets) <= MaxCalls
  /\ rendered' = Handled
  /\ LET baseError == validateBasePortfolio(rendered.basePortfolio)
         failing == FirstCompareError(rendered.compareTargets)
         payloads == <<buildSimulationPayload(rendered.basePortfolio, "reinvest_same_asset")>> \o
                     [i \in DOMAIN rendered.compareTargets |->
                        buildSimulationPayload(rendered.compareTargets[i].portfolio,
                                               "reinvest_same_asset")]
     IN  IF baseError # <<>>
           THEN /\ errorMessage' = <<<<"my portfolio">>, baseError[1]>>
                /\ UNCHANGED <<isRunning, simulationCallCount, inFlight>>
         ELSE IF failing >= 0
           THEN /\ errorMessage' =
                     <<getCompareTargetLabel(rendered.compareTargets[failing + 1], failing),
                       validatePortfolio(rendered.compareTargets[failing + 1].portfolio)[1]>>
                /\ UNCHANGED <<isRunning, simulationCallCount, inFlight>>
         ELSE /\ errorMessage' = <<>>
              /\ isRunning' = TRUE
              /\ simulationCallCount' = simulationCallCount + Len(payloads)
              /\ inFlight' = Append(inFlight, [payloads |-> payloads,
                                               first |-> simulationCallCount + 1,
                                               compareTargets |-> rendered.compareTargets])
  /\ UNCHANGED <<basePortfolio, compareTargets, activeCompareIndex, baseResult, compareResults>>
  /\ UNCHANGED <<etfVars, sourceVars, harnessVars, routeVars, engineVars>>

\* the SimulationResult of response number i of the run that sent requests
\* number first .. first + Len(payloads) - 1
ResultOf(first, i) == [request |-> first + i - 1]

\* runSimulation after Promise.all: a fetch was rejected (answer -1), or the responses
\* arrived with response number `answer` the first that is not ok (0: all are ok)
runSimulationSettle(run, answer) ==
  /\ run \in DOMAIN inFlight
  /\ inFlight' = FilterOutIndex(inFlight, run - 1)
  /\ isRunning' = FALSE
  /\ LET payloads == inFlight[run].payloads
         targets == inFlight[run].compareTargets
     IN  IF answer = -1
           THEN /\ errorMessage' = <<<<"fetch">>, "failed">>
                /\ UNCHANGED <<baseResult, compareResults>>
         ELSE IF answer = 0
           THEN /\ baseResult' = <<ResultOf(inFlight[run].first, 1)>>
                /\ compareResults' =
                     [i \in 1..(Len(payloads) - 1) |-> ResultOf(inFlight[run].first, i + 1)]
                /\ UNCHANGED errorMessage
         ELSE /\ answer \in DOMAIN payloads
              /\ errorMessage' =
                   IF answer = 1 THEN <<<<"my portfolio">>, "run failed">>
                   ELSE <<getCompareTargetLabel(targets[answer - 1], answer - 2), "run failed">>
              /\ UNCHANGED <<baseResult, compareResults>>
  /\ UNCHANGED <<basePortfolio, compareTargets, activeCompareIndex, rendered, simulationCallCount>>
  /\ UNCHANGED <<etfVars, sourceVars, harnessVars, routeVars, engineVars>>

\* the effect on [activeCompareIndex, compareTargets.length]
RepairIndex(closure, state) ==
  IF Len(closure.compareTargets) = 0
    THEN [state EXCEPT !.compareTargets = <<createCompareTarget(defaultComparePortfolio)>>,
                       !.activeCompareIndex = 0]
  ELSE IF closure.activeCompareIndex > Len(closure.compareTargets) - 1
    THEN [state EXCEPT !.activeCompareIndex = Len(closure.compareTargets) - 1]
  ELSE state

\* the effect on [basePortfolio.startDate, basePortfolio.endDate]
SyncDates(closure, state) ==
  LET previous == state.compareTargets
  IN  [state EXCEPT !.compareTargets =
         [i \in DOMAIN previous |->
            [previous[i] EXCEPT !.portfolio.startDate = closure.basePortfolio.startDate,
                                !.portfolio.endDate = closure.basePortfolio.endDate]]]

\* a render after a state change, followed by the effects whose dependencies changed
Render ==
  /\ rendered # <<>>
  /\ Closure(rendered.batch) # [rendered EXCEPT !.handled = 0] \/ rendered.handled > 0
  /\ rendered' = Closure(rendered.batch)
  /\ LET closure == Closure(rendered.batch)
         state == [compareTargets |-> compareTargets, activeCompareIndex |-> activeCompareIndex]
         repaired ==
           IF \/ closure.activeCompareIndex # rendered.activeCompareIndex
              \/ Len(closure.compareTargets) # Len(rendered.compareTargets)
             THEN RepairIndex(closure, state) ELSE state
         synced ==
           IF \/ closure.basePortfolio.startDate # rendered.basePortfolio.startDate
              \/ closure.basePortfolio.endDate # rendered.basePortfolio.endDate
             THEN SyncDates(closure, repaired) ELSE repaired
     IN  /\ compareTargets' = synced.compareTargets
         /\ activeCompareIndex' = synced.activeCompareIndex
  /\ UNCHANGED <<basePortfolio, baseResult, compareResults, errorMessage, isRunning,
                 simulationCallCount, inFlight>>
  /\ UNCHANGED <<etfVars, sourceVars, harnessVars, routeVars, engineVars>>

NextDashboard ==
  \/ \E portfolio \in BasePortfolios : ChangeBasePortfolio(portfolio)
  \/ \E allocations \in CompareAllocations : ChangeComparePortfolio(allocations)
  \/ \E direction \in {"prev", "next"} : moveCompareIndex(direction)
  \/ runSimulationClick
  \/ \E run \in DOMAIN inFlight, answer \in -1..MaxCalls : runSimulationSettle(run, answer)
  \/ Render

NextPager ==
  \/ \E allocations \in CompareAllocations : ChangeComparePortfolio(allocations)
  \/ addCompareTarget
  \/ removeActiveCompareTarget
  \/ \E direction \in {"prev", "next"} : moveCompareIndex(direction)
  \/ Render

SpecDashboard == InitDashboard /\ [][NextDashboard]_vars

SpecPager == InitPager /\ [][NextPager]_vars

----------------------------------------------------------------------------
(* C22: a run that fails validation sends nothing                          *)

\* the initial cash: initialAmount x (100 - stock weight)%, never below 0
InitialCash(portfolio) ==
  RMax(Zero, RDiv(RMul(portfolio.initialAmount,
                       RSub(R(100), getWeightSum(portfolio.allocations))), R(100)))

\* what is asked of every portfolio
CompareFails(portfolio) ==
  \/ portfolio.startDate >= portfolio.endDate
  \/ RLt(portfolio.minimumCashReserve, Zero)
  \/ portfolio.allocations = <<>>
  \/ RGt(getWeightSum(portfolio.allocations), <<2001, 20>>)
  \/ \A i \in DOMAIN portfolio.allocations : RLe(portfolio.allocations[i].targetWeight, Zero)

\* what is asked of "my portfolio" on top of it; an amount counts as below another
\* when it is more than half a won below it
BaseFails(portfolio) ==
  \/ CompareFails(portfolio)
  \/ RLt(portfolio.minimumCashReserve, R(500000))
  \/ RLt(RAdd(InitialCash(portfolio), <<1, 2>>), R(500000))
  \/ RLt(RAdd(InitialCash(portfolio), <<1, 2>>), portfolio.minimumCashReserve)

RunFails ==
  \/ BaseFails(rendered.basePortfolio)
  \/ \E i \in DOMAIN rendered.compareTargets : CompareFails(rendered.compareTargets[i].portfolio)

\* C22: pressing "run simulation" while my portfolio or any comparison portfolio
\* fails validation sends no request to /api/simulations/run, shows an error message
\* and leaves the results shown before as they are; a press while all of them pass
\* sends one request per portfolio.
C22_InvalidRunSendsNothing ==
  [][runSimulationClick =>
       IF RunFails
         THEN /\ simulationCallCount' = simulationCallCount
              /\ inFlight' = inFlight
              /\ errorMessage' # <<>>
              /\ baseResult' = baseResult
              /\ compareResults' = compareResults
              /\ isRunning' = isRunning
         ELSE /\ simulationCallCount' = simulationCallCount + 1 + Len(rendered.compareTargets)
              /\ errorMessage' = <<>>]_vars

\* results of a run of two portfolios are on the screen, my portfolio is then put
\* wholly into stocks, and the press is answered by the message about the initial cash
C22_Witness ==
  /\ baseResult # <<>>
  /\ Len(compareResults) = 1
  /\ simulationCallCount = 2
  /\ inFlight = <<>>
  /\ InitialCash(rendered.basePortfolio) = Zero
  /\ errorMessage = <<<<"my portfolio">>, "initial cash must be 500,000 or more">>

----------------------------------------------------------------------------
(* C23: the list of comparison portfolios and the active index             *)

CountInRange == Len(compareTargets) \in 1..MAX_COMPARE_TARGETS

ActiveIndexValid == activeCompareIndex \in 0..(Len(compareTargets) - 1)

\* no render is due
UpToDate == rendered = Closure(rendered.batch)

\* C23: after any sequence of add, remove, prev and next, several of them handled
\* on the values of one render included, there are 1 to 3 comparison portfolios and
\* activeCompareIndex is an index of the list; an add selects the new last slot and
\* a remove of the only portfolio changes nothing.
C23_AsStated ==
  /\ CountInRange
  /\ ActiveIndexValid

\* an add that the rendered count allows selects the last slot of the new list
C23_AddSelectsLast ==
  [][(addCompareTarget /\ Len(compareTargets) < MAX_COMPARE_TARGETS)
       => activeCompareIndex' = Len(compareTargets') - 1]_vars

\* a remove while the list holds one portfolio changes neither the list nor the index
C23_RemoveOfOnlyOneIsNoOp ==
  [][(removeActiveCompareTarget /\ Len(compareTargets) = 1)
       => /\ compareTargets' = compareTargets
          /\ activeCompareIndex' = activeCompareIndex]_vars

\* once the renders and their effects have run, the count and the index are in range
C23_WhenUpToDate == UpToDate /\ rendered.handled = 0 => C23_AsStated

----------------------------------------------------------------------------
(* The day loop step by step: events, purchases and fees on the same day   *)

TwoDays == <<20240430, 20240501>>

\* SPY pays 10 per share and splits 2:1 on both days; 2024-05-01 is a contribution
\* day and no rebalance day
SameDayEventMarket ==
  Market(<<PricePoint(20240430, R(10), R(10), R(10), R(2)),
           PricePoint(20240501, R(10), R(8), R(10), R(2))>>,
         Flat(TwoDays, R(10)), Flat(TwoDays, R(10)))

\* SPY rises by 2/99 on 2024-04-01: half of 100 in SPY is then 0.5% above its target
ToleranceMarket ==
  Market(Series(<<20240328, 20240401, 20240402>>, <<R(10), <<1010, 99>>, <<1010, 99>>>>),
         Flat(EngineDays, R(10)), Flat(EngineDays, R(10)))

\* Yahoo reports 2024-04-01, the only day of the run, twice for SPY
RepeatedDayMarket ==
  Market(Flat(<<20240401, 20240401>>, R(10)), Flat(<<20240401>>, R(10)),
         Flat(<<20240401>>, R(10)))

DayMarkets ==
  {DriftMarket, QuarterMarket, EventMarket, ZeroCloseMarket, RepeatedDateMarket,
   UnevenMarket, ToleranceMarket}

\* allocations that pay the largest expense ratio
CostlyAllocationLists ==
  {<<Alloc(SPY, R(60), MaxExpenseRatio)>>,
   <<Alloc(SPY, R(50), MaxExpenseRatio), Alloc(QQQ, R(50), Zero)>>}

SameDayBodies ==
  {EngineBody(a, f, r, p, b) :
     a \in CostlyAllocationLists, f \in CashFlows, r \in {Zero, R(20)},
     p \in {"to_cash", "reinvest_same_asset"}, b \in {SPY, VTI}}

InitDay ==
  /\ Started
  /\ \/ \E body \in EngineBodies, m \in DayMarkets :
          Posted(body, Environment("POST", {}, m))
     \/ \E body \in SameDayBodies :
          Posted(body, Environment("POST", {}, SameDayEventMarket))
     \/ \E body \in CostlyBodies, m \in {ShortMarket, RepeatedDayMarket} :
          Posted(body, Environment("POST", {}, m))
     \/ Posted(EngineBody(HalfAndHalf, <<R(100), Zero, Zero>>, Zero, "to_cash", VTI),
               Environment("POST", {"YahooDataError", "SyntaxError"}, FlatMarket))

SpecDay == InitDay /\ [][Next]_vars

----------------------------------------------------------------------------
(* C24: the order of the steps of a day                                    *)

Held == Allocations(request)

Close(t) == Quote[t].close

\* the money paid for the shares a step adds, each at the day's close
PaidForShares == RSum([i \in DOMAIN Held |->
                         RMul(RSub(holdings'[Held[i].ticker], holdings[Held[i].ticker]),
                              Close(Held[i].ticker))])

\* the shares of allocation i that `amount`, split by the relative weights, buys at
\* the day's close; nothing where there is no price
SharesBought(amount, i) ==
  IF RLe(amount, Zero) \/ RLe(Close(Held[i].ticker), Zero) THEN Zero
  ELSE RDiv(RDiv(RMul(amount, Held[i].weight), getTotalStockWeight(Held)),
            Close(Held[i].ticker))

Spent(amount) ==
  RSum([i \in DOMAIN Held |-> RMul(SharesBought(amount, i), Close(Held[i].ticker))])

SalaryNet == RMax(Zero, RSub(request.monthlySalary, R(1000000)))

\* what the first day of a run leaves: the initial purchase and the contribution
\* purchase, each at the close, then the fee of the day
FirstDay ==
  LET first == IF RGt(request.initialAmount, Zero)
               THEN computeDesiredStockBudget(request.initialAmount,
                      getTotalStockWeight(Held), request.minimumCashReserve)
               ELSE Zero
      cash1 == RAdd(RSub(RMax(Zero, request.initialAmount), Spent(first)), SalaryNet)
      investable == RMax(Zero, RSub(cash1, request.minimumCashReserve))
      second == IF RGt(request.monthlyContribution, Zero)
                THEN RMin(request.monthlyContribution, investable) ELSE Zero
  IN  [shares |-> [i \in DOMAIN Held |->
                     RMul(RAdd(SharesBought(first, i), SharesBought(second, i)),
                          RSub(One, RDiv(Held[i].expenseRatio, R(252))))],
       cash |-> RSub(cash1, Spent(second))]

\* the step after each step of a day
StepAfter ==
  [p \in {"splits", "dividends", "initial", "contribution", "drag", "rebalance"} |->
     CASE p = "splits" -> "dividends"
       [] p = "dividends" -> "initial"
       [] p = "initial" -> "contribution"
       [] p = "contribution" -> "drag"
       [] p = "drag" -> "rebalance"
       [] p = "rebalance" -> "record"]

\* |cash / P - target cash weight| > 0.5% or, for some allocation,
\* |current weight - target weight| > 0.5%, on the holdings and the cash as they are
Drifted ==
  LET P == RAdd(computeStockValue(Held, holdings, Quote), cashValue)
      W == getTotalStockWeight(Held)
      budget == computeDesiredStockBudget(P, W, request.minimumCashReserve)
      tolerance == <<5, 1000>>
  IN  /\ RGt(P, Zero)
      /\ \/ RGt(RAbs(RSub(RDiv(cashValue, P), RDiv(RSub(P, budget), P))), tolerance)
         \/ \E i \in DOMAIN Held :
              RGt(RAbs(RSub(RDiv(RMul(holdings[Held[i].ticker], Close(Held[i].ticker)), P),
                            RDiv(RDiv(RMul(budget, Held[i].weight), W), P))),
                  tolerance)

C24_Step ==
  /\ pc \in DOMAIN StepAfter => pc' = StepAfter[pc] /\ index' = index
  /\ pc = "record" =>
       /\ index' = index + 1
       /\ pc' = IF index' < Len(tradingDays) THEN "splits" ELSE "result"
       \* the point is the state the rebalance left
       /\ timeline' = Append(timeline, timeline'[Len(timeline')])
       /\ timeline'[Len(timeline')].date = Day
       /\ timeline'[Len(timeline')].cashValue = cashValue
       /\ timeline'[Len(timeline')].stockValue = computeStockValue(Held, holdings, Quote)
       /\ timeline'[Len(timeline')].netFlow = netFlow
  \* the day's split multiplies the shares carried into the day
  /\ pc = "splits" =>
       \A i \in DOMAIN Held :
         LET ratio == Quote[Held[i].ticker].splitRatio
         IN  holdings'[Held[i].ticker] =
               IF RGt(ratio, Zero) THEN RMul(holdings[Held[i].ticker], ratio)
               ELSE holdings[Held[i].ticker]
  \* a purchase pays the close for its shares: no split and no dividend comes with them
  /\ pc \in {"initial", "contribution"} =>
       PaidForShares = RSub(RAdd(cashValue, RSub(netFlow', netFlow)), cashValue')
  /\ pc = "initial" /\ index > 0 => holdings' = holdings /\ cashValue' = cashValue
  \* the fee is taken from the shares bought on the day too
  /\ pc = "drag" =>
       \A i \in DOMAIN Held :
         holdings'[Held[i].ticker] =
           RMul(holdings[Held[i].ticker], RSub(One, RDiv(Held[i].expenseRatio, R(252))))
  \* the drift is looked for in the holdings after the fee and the cash after the purchase
  /\ pc = "rebalance" => (rebalanced' <=> (index > 0 /\ Day \in rebalanceDays /\ Drifted))

\* on the first day nothing is held when the splits and the dividends are looked at
C24_FirstDay ==
  /\ (index = 0 /\ pc \in {"splits", "dividends", "initial"}) =>
       /\ cashValue = Zero
       /\ \A t \in DOMAIN holdings : holdings[t] = Zero
  /\ (index = 0 /\ pc \in {"rebalance", "record"}) =>
       /\ cashValue = FirstDay.cash
       /\ \A i \in DOMAIN Held : holdings[Held[i].ticker] = FirstDay.shares[i]

\* C24: every trading day runs splits, dividends, the initial investment (first day
\* only), the contribution, the expense drag, the rebalance and the recording of the
\* point in this order: shares bought on a day are not multiplied by that day's split
\* ratio and earn no dividend that day (none is ever paid on the first day), they are
\* reduced by that day's expense drag, the drift check sees the holdings after the drag
\* and the cash after the contribution, and the point holds the state after the rebalance.
C24_OrderOfTheDay == [](C24_FirstDay) /\ [][C24_Step]_vars

\* SPY pays a dividend and splits on a first day on which shares are bought and a fee
\* is taken: the day ends with the shares of the two purchases less the fee
C24_Witness ==
  /\ pc = "record"
  /\ index = 0
  /\ env.market = SameDayEventMarket
  /\ RGt(request.initialAmount, Zero)
  /\ RGt(request.monthlyContribution, Zero)
  /\ RGt(SalaryNet, Zero)
  /\ request.dividendPolicy = "reinvest_same_asset"
  /\ \E i \in DOMAIN Held : /\ RGt(Held[i].expenseRatio, Zero)
                            /\ RGt(holdings[Held[i].ticker], Zero)
                            /\ Quote[Held[i].ticker].splitRatio = R(2)

----------------------------------------------------------------------------
(* C25: when the rebalance runs                                            *)

\* the stock budget of the portfolio as it is
BudgetNow ==
  computeDesiredStockBudget(RAdd(computeStockValue(Held, holdings, Quote), cashValue),
                            getTotalStockWeight(Held), request.minimumCashReserve)

\* C25: rebalancePortfolio runs on a day exactly when the day is not the first day,
\* is in the rebalance-day set, the portfolio value is positive and the cash weight or
\* the weight of some allocation is more than 0.5% away from its target (a difference
\* of exactly 0.5% does not trigger); on every other day the rebalance step leaves
\* the holdings and the cash as they are.
C25_RebalanceIffDrifted ==
  [][pc = "rebalance" =>
       IF index > 0 /\ Day \in rebalanceDays /\ Drifted
         THEN /\ rebalanced'
              /\ \A i \in DOMAIN Held :
                   RGt(Close(Held[i].ticker), Zero) =>
                     RMul(holdings'[Held[i].ticker], Close(Held[i].ticker)) =
                       RDiv(RMul(BudgetNow, Held[i].weight), getTotalStockWeight(Held))
         ELSE /\ ~rebalanced'
              /\ holdings' = holdings
              /\ cashValue' = cashValue]_vars

\* a rebalance has run on the first trading day of April, after SPY doubled
C25_Witness ==
  /\ pc = "record"
  /\ rebalanced
  /\ index = 1
  /\ Day = 20240401
  /\ env.market = DriftMarket

----------------------------------------------------------------------------
(* C26: rebalancePortfolio, called on its own and by the day loop          *)

Normalized(ticker, weight) == [ticker |-> ticker, weight |-> weight, expenseRatio |-> Zero]

RebalanceAllocationLists ==
  {<<Normalized(SPY, One)>>,
   <<Normalized(SPY, <<1, 2>>), Normalized(QQQ, <<1, 2>>)>>,
   <<Normalized(SPY, <<2, 5>>), Normalized(QQQ, <<2, 5>>)>>,
   <<Normalized(QQQ, <<3, 5>>)>>}

\* shares held, closes of the day, cash and reserves of the calls
RebalanceShares == {Zero, R(3), R(8)}
RebalanceCloses == {Zero, R(10), R(20)}
RebalanceCash == {Zero, R(20), R(100)}
RebalanceReserves == {Zero, R(20), R(200)}

InitRebalanceCall ==
  /\ input \in [allocations : RebalanceAllocationLists,
                holdings : [{SPY, QQQ} -> RebalanceShares],
                close : [{SPY, QQQ} -> RebalanceCloses],
                cashValue : RebalanceCash,
                minimumCashReserve : RebalanceReserves]
  /\ output = NotCalled
  /\ RouteIdle
  /\ EngineIdle
  /\ SourceIdle
  /\ EtfIdle
  /\ DashboardIdle

InitRebalance ==
  \/ InitRebalanceCall
  \/ /\ Started
     /\ \/ \E body \in EngineBodies, m \in {DriftMarket, ZeroCloseMarket, RepeatedDateMarket} :
             Posted(body, Environment("POST", {}, m))
        \/ Posted(EngineBody(HalfAndHalf, <<R(100), Zero, Zero>>, Zero, "to_cash", VTI),
                  Environment("POST", {"YahooDataError", "SyntaxError"}, FlatMarket))

CallRebalancePortfolio ==
  /\ pc = "idle"
  /\ output = NotCalled
  /\ output' = <<rebalancePortfolio(input.allocations, input.holdings,
                                    [t \in {SPY, QQQ} |->
                                       PricePoint(20240401, input.close[t], input.close[t],
                                                  Zero, One)],
                                    input.cashValue, input.minimumCashReserve)>>
  /\ UNCHANGED <<dashboardVars, etfVars, sourceVars, input, routeVars, engineVars>>

NextRebalance == Next \/ CallRebalancePortfolio

SpecRebalance == InitRebalance /\ [][NextRebalance]_vars

\* a full re-target of the allocations `a` that conserves the value: from the shares
\* `before` and the cash `cash` at the closes `close` to the shares `after` and the
\* cash `left`
Retargeted(a, before, close, cash, reserve, after, left) ==
  LET value(shares) == RSum([i \in DOMAIN a |-> RMul(shares[a[i].ticker], close[a[i].ticker])])
      P == RAdd(value(before), cash)
      W == RSum([i \in DOMAIN a |-> a[i].weight])
      budget == computeDesiredStockBudget(P, W, reserve)
      target(i) == RDiv(RMul(budget, a[i].weight), W)
      priced == {i \in DOMAIN a : RGt(close[a[i].ticker], Zero)}
  IN  /\ IF RLe(budget, Zero)
           THEN /\ \A i \in DOMAIN a : after[a[i].ticker] = Zero
                /\ left = P
           ELSE /\ \A i \in priced : after[a[i].ticker] = RDiv(target(i), close[a[i].ticker])
                /\ \A i \in DOMAIN a \ priced : after[a[i].ticker] = before[a[i].ticker]
                /\ left = RMax(Zero, RSub(P, RSum([i \in DOMAIN a |->
                                                    IF i \in priced THEN target(i) ELSE Zero])))
      /\ RAdd(value(after), left) = P
      /\ \A t \in DOMAIN before : (\A i \in DOMAIN a : a[i].ticker # t) => after[t] = before[t]

C26_Call ==
  (pc = "idle" /\ output # NotCalled) =>
    LET P == RAdd(RSum([i \in DOMAIN input.allocations |->
                          RMul(input.holdings[input.allocations[i].ticker],
                               input.close[input.allocations[i].ticker])]),
                  input.cashValue)
    IN  RGt(P, Zero) =>
          Retargeted(input.allocations, input.holdings, input.close, input.cashValue,
                     input.minimumCashReserve, output[1].holdings, output[1].cashValue)

C26_Step ==
  (pc = "rebalance" /\ rebalanced') =>
    /\ Retargeted(Held, holdings, [t \in DOMAIN Quote |-> Quote[t].close], cashValue,
                  request.minimumCashReserve, holdings', cashValue')
    /\ UNCHANGED <<benchmarkShares, totalInvested, contributions, netFlow>>

\* C26: an executed rebalance is a full re-target that conserves the value: with a
\* stock budget <= 0 every allocation's shares become 0 and the cash becomes P;
\* otherwise every allocation with a positive price gets budget x (weight /
\* totalWeight) / price shares whatever it held, and the cash becomes max(0, P - the
\* re-targeted values); stock value + cash is P afterwards; benchmark shares, invested
\* capital, contributions and netFlow do not change.
C26_FullRetarget == [](C26_Call) /\ [][C26_Step]_vars

\* the day loop has re-targeted two allocations that had drifted
C26_Witness ==
  /\ pc = "record"
  /\ rebalanced
  /\ Len(Held) = 2
  /\ env.market = DriftMarket
  /\ RGt(cashValue, Zero)
  /\ RGt(benchmarkShares, Zero)
  /\ holdings[SPY] # holdings[QQQ]

----------------------------------------------------------------------------
(* C27: the contribution step                                              *)

\* the first trading day of every month of the run (the first day of the run is one)
FirstTradingDaysOfMonth ==
  {d \in Range(tradingDays) :
     \A e \in Range(tradingDays) : (e \div 100 = d \div 100) => e >= d}

\* what goes into stocks on a contribution day: up to monthlyContribution of the cash
\* above the reserve, the salary included
ContributionAmount ==
  IF RGt(request.monthlyContribution, Zero)
  THEN RMin(request.monthlyContribution,
            RMax(Zero, RSub(RAdd(cashValue, SalaryNet), request.minimumCashReserve)))
  ELSE Zero

\* one pass of the loop through the contribution step
C27_Step ==
  pc = "contribution" =>
    IF index = 0 \/ Day \in FirstTradingDaysOfMonth
    THEN /\ totalInvested' = RAdd(totalInvested, SalaryNet)
         /\ contributions' = RAdd(contributions, SalaryNet)
         /\ netFlow' = RAdd(netFlow, SalaryNet)
         /\ \A i \in DOMAIN Held :
              holdings'[Held[i].ticker] =
                RAdd(holdings[Held[i].ticker], SharesBought(ContributionAmount, i))
         /\ cashValue' = RSub(RAdd(cashValue, SalaryNet), Spent(ContributionAmount))
         /\ cashValue' = RSub(RAdd(cashValue, SalaryNet), PaidForShares)
    ELSE UNCHANGED <<totalInvested, contributions, netFlow, holdings, cashValue>>

\* every pass of the day loop through the contribution step pays and invests as stated
C27_EachPass == [][C27_Step]_vars

\* the salary paid in so far is one net salary for each contribution day so far
C27_OncePerDay ==
  pc \in {"drag", "rebalance", "record"} =>
    contributions =
      RMul(SalaryNet, R(Cardinality({d \in FirstTradingDaysOfMonth : d <= Day})))

\* C27: day 0 and every first trading day of a month are contribution days; on each
\* of them the net salary max(0, monthlySalary - 1,000,000) is added once to cash,
\* invested capital, contributions and netFlow, then min(monthlyContribution,
\* max(0, cash - minimumCashReserve)) goes into stocks by relative weights and the
\* cash decreases by what was invested; on other days there is neither.
C27_AsStated == [](C27_OncePerDay) /\ [][C27_Step]_vars

\* where no date is repeated, the salary is paid once for every contribution day
C27_OnDistinctDates ==
  Cardinality(Range(tradingDays)) = Len(tradingDays) => C27_OncePerDay

\* the salary of 2024-04-01 has been paid twice
C27_PaidTwice ==
  /\ pc = "drag"
  /\ env.market = RepeatedDateMarket
  /\ index = 2
  /\ Day = tradingDays[index]
  /\ contributions = RMul(SalaryNet, R(3))
  /\ RGt(SalaryNet, Zero)

----------------------------------------------------------------------------
(* C28: the initial investment and the benchmark leg                       *)

\* the adjusted close of the benchmark on the day the loop is at
BenchmarkAdjustedClose == Quote[toUpperCase(request.benchmarkTicker)].adjustedClose

\* the value of `shares` of the benchmark at its adjusted close
BenchmarkWorth(shares) == RMul(shares, BenchmarkAdjustedClose)

\* the part of the initial amount that may go into stocks: its weight share, as far
\* as the reserve (at most the whole amount) is left in cash
InitialBudget ==
  RMax(Zero, RMin(RMul(request.initialAmount, getTotalStockWeight(Held)),
                  RSub(request.initialAmount,
                       RMin(request.minimumCashReserve, request.initialAmount))))

C28_Step ==
  /\ pc = "initial" =>
       IF index = 0 /\ RGt(request.initialAmount, Zero)
       THEN /\ \A i \in DOMAIN Held :
                 holdings'[Held[i].ticker] =
                   RAdd(holdings[Held[i].ticker], SharesBought(InitialBudget, i))
            /\ cashValue' = RSub(RAdd(cashValue, request.initialAmount), Spent(InitialBudget))
            /\ RGe(cashValue', RSub(request.initialAmount, InitialBudget))
            /\ totalInvested' = RAdd(totalInvested, request.initialAmount)
            /\ netFlow' = RAdd(netFlow, request.initialAmount)
            /\ BenchmarkWorth(benchmarkShares') =
                 RAdd(BenchmarkWorth(benchmarkShares), request.initialAmount)
       ELSE UNCHANGED <<holdings, cashValue, totalInvested, netFlow, benchmarkShares>>
  /\ pc = "contribution" =>
       BenchmarkWorth(benchmarkShares') =
         RAdd(BenchmarkWorth(benchmarkShares),
              IF Day \in contributionDays THEN SalaryNet ELSE Zero)
  /\ pc \in {"splits", "dividends", "drag", "rebalance", "record"} =>
       benchmarkShares' = benchmarkShares
  /\ pc \in {"splits", "dividends", "initial", "contribution", "drag", "rebalance",
             "record"} =>
       RGe(benchmarkShares', benchmarkShares)

\* C28: the initial investment is made on day 0 only and only for initialAmount > 0;
\* the portfolio puts the cash-floor-limited budget into stocks by weight /
\* totalWeight at the close and keeps the rest as cash, the benchmark leg buys shares
\* for the full initialAmount at the adjusted close; benchmark shares never decrease
\* during a run and change only by the purchases for initialAmount and for the net
\* salary: no split, drag, rebalance or reserve touches them.
C28_InitialAndBenchmark == [][C28_Step]_vars

\* a first day on which the reserve kept part of the initial amount in cash while the
\* benchmark, whose adjusted close is below its close, got shares for all of it
C28_Witness ==
  /\ pc = "contribution"
  /\ index = 0
  /\ env.market = UnevenMarket
  /\ toUpperCase(request.benchmarkTicker) = SPY
  /\ RGt(request.initialAmount, Zero)
  /\ RGt(request.minimumCashReserve, Zero)
  /\ RGt(InitialBudget, Zero)
  /\ RLt(InitialBudget, RMul(request.initialAmount, getTotalStockWeight(Held)))
  /\ Quote[SPY].close # Quote[SPY].adjustedClose
  /\ BenchmarkWorth(benchmarkShares) = request.initialAmount
  /\ cashValue = RSub(request.initialAmount, InitialBudget)

----------------------------------------------------------------------------
(* C29: applyDividendEvents, called on its own and by the day loop         *)

\* dividends per share of the calls
DividendsPerShare == {Zero, One}

InitDividendCall ==
  /\ input \in [allocations : RebalanceAllocationLists,
                holdings : [{SPY, QQQ} -> {Zero, R(3)}],
                close : [{SPY, QQQ} -> {Zero, R(10)}],
                dividendPerShare : [{SPY, QQQ} -> DividendsPerShare],
                dividendPolicy : {"to_cash", "reinvest_same_asset"},
                cashValue : {Zero, R(20)}]
  /\ output = NotCalled
  /\ RouteIdle
  /\ EngineIdle
  /\ SourceIdle
  /\ EtfIdle
  /\ DashboardIdle

InitDividend ==
  \/ InitDividendCall
  \/ /\ Started
     /\ \/ \E body \in EngineBodies :
             Posted(body, Environment("POST", {}, EventMarket))
        \/ \E body \in SameDayBodies :
             Posted(body, Environment("POST", {}, SameDayEventMarket))
        \/ Posted(EngineBody(HalfAndHalf, <<R(100), Zero, Zero>>, Zero, "to_cash", VTI),
                  Environment("POST", {"YahooDataError", "SyntaxError"}, FlatMarket))

CallApplyDividendEvents ==
  /\ pc = "idle"
  /\ output = NotCalled
  /\ output' = <<applyDividendEvents(input.allocations, 1, input.holdings, input.cashValue,
                                     input.dividendPolicy,
                                     [t \in {SPY, QQQ} |->
                                        PricePoint(20240401, input.close[t], input.close[t],
                                                   input.dividendPerShare[t], One)])>>
  /\ UNCHANGED <<dashboardVars, etfVars, sourceVars, input, routeVars, engineVars>>

NextDividend == Next \/ CallApplyDividendEvents

SpecDividend == InitDividend /\ [][NextDividend]_vars

\* the dividends of a day, paid on the shares `before` of the allocations `a`: each
\* one goes to the cash or, reinvested at a positive close, into shares of its ticker
DividendsPaid(a, before, perShare, close, policy, cash, after, left) ==
  LET pays(i) == RGt(perShare[a[i].ticker], Zero) /\ RGt(before[a[i].ticker], Zero)
      payout(i) == RMul(before[a[i].ticker], perShare[a[i].ticker])
      reinvested(i) == /\ pays(i)
                       /\ policy = "reinvest_same_asset"
                       /\ RGt(close[a[i].ticker], Zero)
  IN  /\ \A i \in DOMAIN a :
           after[a[i].ticker] =
             IF reinvested(i)
             THEN RAdd(before[a[i].ticker], RDiv(payout(i), close[a[i].ticker]))
             ELSE before[a[i].ticker]
      /\ left = RAdd(cash, RSum([i \in DOMAIN a |->
                                   IF pays(i) /\ ~reinvested(i) THEN payout(i) ELSE Zero]))
      /\ \A t \in DOMAIN before : (\A i \in DOMAIN a : a[i].ticker # t) => after[t] = before[t]

C29_Call ==
  (pc = "idle" /\ output # NotCalled) =>
    DividendsPaid(input.allocations, input.holdings, input.dividendPerShare, input.close,
                  input.dividendPolicy, input.cashValue,
                  output[1].holdings, output[1].cashValue)

C29_Step ==
  pc = "dividends" =>
    /\ DividendsPaid(Held, holdings, [t \in DOMAIN Quote |-> Quote[t].dividendPerShare],
                     [t \in DOMAIN Quote |-> Quote[t].close], request.dividendPolicy,
                     cashValue, holdings', cashValue')
    /\ UNCHANGED <<totalInvested, contributions, netFlow, benchmarkShares>>

\* C29: a dividend (per share > 0, on shares > 0) changes one thing: under to_cash
\* the cash grows by shares x perShare and no share count changes; under
\* reinvest_same_asset with a close > 0 the ticker gets payout / close more shares
\* and the cash and the other tickers are unchanged, and with a close <= 0 the payout
\* goes to the cash; invested capital, contributions, netFlow and benchmark shares
\* never change by it.
C29_DividendChangesOneThing == [](C29_Call) /\ [][C29_Step]_vars

\* 10 shares of SPY earned 1 each at a close of 10 and became 11, with no cash
C29_Witness ==
  /\ pc = "initial"
  /\ index = 1
  /\ env.market = EventMarket
  /\ request.dividendPolicy = "reinvest_same_asset"
  /\ Quote[SPY].dividendPerShare = One
  /\ holdings[SPY] = R(11)
  /\ cashValue = Zero

----------------------------------------------------------------------------
(* C30: the daily expense drag                                             *)

RECURSIVE RPow(_, _)
RPow(x, n) == IF n = 0 THEN One ELSE RMul(x, RPow(x, n - 1))

\* 1 - expenseRatio / 252 of allocation i
DragFactor(i) == RSub(One, RDiv(Held[i].expenseRatio, R(252)))

\* one pass of the loop through the drag
C30_Step ==
  /\ pc = "contribution" => pc' = "drag"
  /\ pc = "drag" =>
       /\ pc' = "rebalance"
       /\ \A i \in DOMAIN Held :
            /\ holdings'[Held[i].ticker] = RMul(holdings[Held[i].ticker], DragFactor(i))
            /\ RLe(holdings'[Held[i].ticker], holdings[Held[i].ticker])
       /\ UNCHANGED <<cashValue, benchmarkShares, totalInvested, contributions, netFlow>>

\* every pass of the day loop takes the fee of one day, once
C30_EachPass == [][C30_Step]_vars

\* a run that buys once, on its first day, all in one allocation, on a market without
\* splits, with dividends paid to the cash
BuysOnce ==
  /\ Len(Held) = 1
  /\ Held[1].weight = One
  /\ request.minimumCashReserve = Zero
  /\ RGt(request.initialAmount, Zero)
  /\ SalaryNet = Zero
  /\ request.dividendPolicy = "to_cash"
  /\ \A k \in DOMAIN historyMap[Held[1].ticker] :
       /\ historyMap[Held[1].ticker][k].splitRatio = One
       /\ historyMap[Held[1].ticker][k].dividendPerShare = Zero
       /\ RGt(historyMap[Held[1].ticker][k].close, Zero)

\* the trading days up to the day the loop is at
DaysSoFar == {d \in Range(tradingDays) : d <= Day}

\* the shares of such a run have paid the fee once for every trading day so far
C30_OncePerDay ==
  (pc \in {"rebalance", "record"} /\ BuysOnce) =>
    holdings[Held[1].ticker] =
      RMul(RDiv(request.initialAmount,
                MapGet(historyMap[Held[1].ticker], tradingDays[1]).close),
           RPow(DragFactor(1), Cardinality(DaysSoFar)))

\* C30: the expense drag is applied exactly once on every trading day, day 0,
\* contribution days and rebalance days included: each allocation's shares are
\* multiplied by 1 - expenseRatio / 252 and so never grow by it, and cash, benchmark
\* shares and the cumulative totals are untouched by it.
C30_AsStated == [](C30_OncePerDay) /\ [][C30_Step]_vars

\* where no date is repeated, the fee is taken once for every trading day
C30_OnDistinctDates ==
  Cardinality(Range(tradingDays)) = Len(tradingDays) => C30_OncePerDay

\* the fee of 2024-04-01 has been taken twice from 10 shares of SPY
C30_TakenTwice ==
  /\ pc = "record"
  /\ env.market = RepeatedDayMarket
  /\ index = 1
  /\ BuysOnce
  /\ RGt(Held[1].expenseRatio, Zero)
  /\ holdings[SPY] = RMul(R(10), RPow(DragFactor(1), 2))

\* a second day's fee taken from shares that had paid the first day's
C30_TakenDaily ==
  /\ pc = "record"
  /\ env.market = ShortMarket
  /\ index = 1
  /\ BuysOnce
  /\ RGt(Held[1].expenseRatio, Zero)
  /\ holdings[SPY] = RMul(R(10), RPow(DragFactor(1), 2))

----------------------------------------------------------------------------
(* C31: days without a price                                               *)

\* QQQ has no price on the first day of the run
NoFirstPriceMarket ==
  Market(Flat(EngineDays, R(10)), Series(EngineDays, Rats(<<0, 10, 10, 10>>)),
         Flat(EngineDays, R(10)))

\* VTI has no adjusted close on the first day of the run and on the first trading day
\* of April
NoBenchmarkPriceMarket ==
  Market(Flat(EngineDays, R(10)), Flat(EngineDays, R(10)),
         [i \in DOMAIN EngineDays |->
            PricePoint(EngineDays[i], R(10), IF i <= 2 THEN Zero ELSE R(10), Zero, One)])

NoPriceMarkets == {ZeroCloseMarket, NoFirstPriceMarket, NoBenchmarkPriceMarket}

InitNoPrice ==
  /\ Started
  /\ \/ \E body \in EngineBodies, m \in NoPriceMarkets :
          Posted(body, Environment("POST", {}, m))
     \/ Posted(EngineBody(HalfAndHalf, <<R(100), Zero, Zero>>, Zero, "to_cash", VTI),
               Environment("POST", {"YahooDataError", "SyntaxError"}, FlatMarket))

SpecNoPrice == InitNoPrice /\ [][Next]_vars

\* allocation i has no positive close on the day the loop is at
Unpriced(i) == RLe(Close(Held[i].ticker), Zero)

\* what the purchase of the step is to put into stocks
PurchaseAmount ==
  IF pc = "initial"
  THEN (IF index = 0 /\ RGt(request.initialAmount, Zero) THEN InitialBudget ELSE Zero)
  ELSE (IF Day \in contributionDays THEN ContributionAmount ELSE Zero)

\* the money the step brings in
Inflow ==
  IF pc = "initial"
  THEN (IF index = 0 /\ RGt(request.initialAmount, Zero) THEN request.initialAmount ELSE Zero)
  ELSE (IF Day \in contributionDays THEN SalaryNet ELSE Zero)

C31_Step ==
  /\ pc \in {"initial", "contribution"} =>
       /\ \A i \in DOMAIN Held : Unpriced(i) => holdings'[Held[i].ticker] = holdings[Held[i].ticker]
       \* the cash pays for the legs that have a price and for nothing else
       /\ cashValue' =
            RSub(RAdd(cashValue, Inflow),
                 RSum([i \in DOMAIN Held |->
                         IF Unpriced(i) \/ RLe(PurchaseAmount, Zero) THEN Zero
                         ELSE RDiv(RMul(PurchaseAmount, Held[i].weight),
                                   getTotalStockWeight(Held))]))
       /\ cashValue' = RSub(RAdd(cashValue, Inflow), PaidForShares)
       /\ RLe(BenchmarkAdjustedClose, Zero) =>
            /\ benchmarkShares' = benchmarkShares
            /\ totalInvested' = RAdd(totalInvested, Inflow)
  /\ (pc = "rebalance" /\ rebalanced') =>
       \A i \in DOMAIN Held : Unpriced(i) => holdings'[Held[i].ticker] = holdings[Held[i].ticker]

\* a run whose series were fetched returns a result
C31_RunCompletes ==
  /\ pc \in {"splits", "dividends", "initial", "contribution", "drag", "rebalance", "record",
             "result"} => outcome = <<>> \/ runNo > 1
  /\ (pc \in {"settled", "responded"} /\ env.failures = {}) => outcome[1].ok
  /\ (pc = "responded" /\ env.failures = {}) => response[1].status = 200

\* C31: a price that is missing or <= 0 on a day skips only that leg and never aborts
\* the run: a purchase leaves the ticker's shares as they are and its part of the
\* amount in the cash (the cash pays only for what was invested), a rebalance leaves
\* the ticker's shares as they are, and at a benchmark adjusted close <= 0 no
\* benchmark shares are bought while the flow still counts as invested capital.
C31_NoPriceSkipsTheLeg == [](C31_RunCompletes) /\ [][C31_Step]_vars

\* the run has answered 200 although QQQ had no price on its first day, when half of
\* the initial amount stayed in the cash
C31_Witness ==
  /\ pc = "responded"
  /\ env.market = NoFirstPriceMarket
  /\ Len(Held) = 2
  /\ getTotalStockWeight(Held) = One
  /\ request.minimumCashReserve = Zero
  /\ response[1].status = 200
  /\ timeline[1].cashValue = RDiv(request.initialAmount, R(2))
  /\ RGt(request.initialAmount, Zero)
  /\ SalaryNet = Zero

----------------------------------------------------------------------------
(* C32: shares and cash are never negative                                 *)

InDayLoop ==
  pc \in {"splits", "dividends", "initial", "contribution", "drag", "rebalance", "record"}

\* in exact arithmetic no step of a day leaves negative shares or negative cash
C32_NeverNegative ==
  (InDayLoop \/ pc = "result") =>
    /\ \A t \in DOMAIN holdings : RGe(holdings[t], Zero)
    /\ RGe(cashValue, Zero)

\* in exact arithmetic a purchase pays at most the cash there is
C32_PurchaseStep ==
  pc \in {"initial", "contribution"} =>
    /\ RLe(PaidForShares, RAdd(cashValue, Inflow))
    /\ cashValue' = RSub(RAdd(cashValue, Inflow), PaidForShares)

C32_InExactArithmetic == [](C32_NeverNegative) /\ [][C32_PurchaseStep]_vars

----------------------------------------------------------------------------
(* C33: the accounting of the flows                                        *)

\* the result of the run that has returned
Returning == outcome[1].result

HasReturned == pc = "settled" /\ outcome # <<>> /\ outcome[1].ok

\* the year-months among the trading days
YearMonths == {d \div 100 : d \in Range(tradingDays)}

\* the flows and the values of every point and of the breakdown agree
C33_Accounting ==
  HasReturned =>
    LET r == Returning
        t == r.timeline
        b == r.cashflowBreakdown
    IN  /\ \A i \in DOMAIN t :
             /\ t[i].investedCapital = RSum([j \in 1..i |-> t[j].netFlow])
             /\ i > 1 => RGe(t[i].investedCapital, t[i - 1].investedCapital)
             /\ t[i].portfolioValue = RAdd(t[i].stockValue, t[i].cashValue)
        /\ b.totalInvested = RAdd(b.initialPrincipal, b.contributions)
        /\ b.totalInvested = t[Len(t)].investedCapital
        /\ b.gains = RSub(r.metrics.portfolio.endingValue, b.totalInvested)
        /\ r.metrics.portfolio.gains = b.gains
        /\ RAdd(b.endingCash, b.endingStockValue) = r.metrics.portfolio.endingValue

\* the contributions are one net salary for every year-month of the trading days
C33_SalaryPerMonth ==
  HasReturned =>
    Returning.cashflowBreakdown.contributions = RMul(SalaryNet, R(Cardinality(YearMonths)))

\* C33: at every TimelinePoint and in the result investedCapital never decreases and
\* is the sum of netFlow up to that day, portfolioValue = stockValue + cashValue, the
\* final totalInvested = initialPrincipal + contributions with contributions =
\* max(0, monthlySalary - 1,000,000) x the number of distinct year-months among the
\* trading days, gains = endingValue - totalInvested and endingCash +
\* endingStockValue = the portfolio's endingValue.
C33_AsStated == C33_Accounting /\ C33_SalaryPerMonth

\* where no date is repeated, the contributions are one net salary per month
C33_OnDistinctDates ==
  Cardinality(Range(tradingDays)) = Len(tradingDays) => C33_SalaryPerMonth

\* three net salaries in the result of a run over two months
C33_ThreeSalaries ==
  /\ HasReturned
  /\ env.market = RepeatedDateMarket
  /\ RGt(SalaryNet, Zero)
  /\ Cardinality(YearMonths) = 2
  /\ Returning.cashflowBreakdown.contributions = RMul(SalaryNet, R(3))

----------------------------------------------------------------------------
(* C34: calculateYearlyReturnSeries applied to dates and returns           *)

MaxYearlyLen == 3

\* trading dates of three years
YearlyDates == <<20231228, 20231229, 20240102, 20241231, 20250102>>

\* the ascending lists of some of these dates
YearlyDateLists ==
  {SelectSeq(YearlyDates, LAMBDA d : d \in chosen) : chosen \in SUBSET Range(YearlyDates)}

YearlyReturns == {Zero, <<1, 10>>, <<-1, 2>>}

InitYearly ==
  /\ input \in [dates : YearlyDateLists,
                portfolioDailyReturns : BoundedSeq(YearlyReturns, MaxYearlyLen),
                benchmarkDailyReturns : BoundedSeq({Zero, <<1, 10>>}, MaxYearlyLen)]
  /\ output = NotCalled
  /\ RouteIdle
  /\ EngineIdle
  /\ SourceIdle
  /\ EtfIdle
  /\ DashboardIdle

CallCalculateYearlyReturnSeries ==
  /\ output = NotCalled
  /\ output' = <<calculateYearlyReturnSeries(input.dates, input.portfolioDailyReturns,
                                              input.benchmarkDailyReturns)>>
  /\ UNCHANGED <<dashboardVars, etfVars, sourceVars, input, routeVars, engineVars>>

NextYearly == CallCalculateYearlyReturnSeries

SpecYearly == InitYearly /\ [][NextYearly]_vars

\* the product of 1 + r over the returns r at the positions S
RECURSIVE Compounded(_, _)
Compounded(returns, S) ==
  IF S = {} THEN One
  ELSE LET i == CHOOSE k \in S : TRUE
       IN  RMul(RAdd(One, returns[i]), Compounded(returns, S \ {i}))

\* the positions of the returns whose day pair ends in `year`
EndingIn(returns, year) ==
  {i \in DOMAIN returns : i + 1 \in DOMAIN input.dates /\ input.dates[i + 1] \div 10000 = year}

\* C34: a daily return counts for the calendar year of the later date of its day
\* pair; the returns of a year are compounded and 1 is subtracted; there is one entry
\* for every year that occurs for the portfolio or the benchmark, a side without
\* data for the year reporting 0; the entries are in ascending order of the year;
\* compounding the yearly portfolio returns gives what compounding all daily
\* returns gives.
C34_YearlyReturns ==
  output # NotCalled =>
    LET series == output[1]
        p == input.portfolioDailyReturns
        b == input.benchmarkDailyReturns
        years == {y \in 2023..2025 : EndingIn(p, y) # {} \/ EndingIn(b, y) # {}}
        dated == {i \in DOMAIN p : i + 1 \in DOMAIN input.dates}
    IN  /\ {series[k].year : k \in DOMAIN series} = years
        /\ Len(series) = Cardinality(years)
        /\ \A k \in DOMAIN series :
             /\ k > 1 => series[k - 1].year < series[k].year
             /\ series[k].portfolioReturn =
                  IF EndingIn(p, series[k].year) = {} THEN Zero
                  ELSE RSub(Compounded(p, EndingIn(p, series[k].year)), One)
             /\ series[k].benchmarkReturn =
                  IF EndingIn(b, series[k].year) = {} THEN Zero
                  ELSE RSub(Compounded(b, EndingIn(b, series[k].year)), One)
        /\ Compounded([k \in DOMAIN series |-> series[k].portfolioReturn], DOMAIN series)
             = Compounded(p, dated)

\* two returns compounded for 2024 and one for 2025, for which the benchmark has none
C34_Witness ==
  /\ output # NotCalled
  /\ Len(output[1]) = 2
  /\ Len(input.benchmarkDailyReturns) = 2
  /\ Len(input.portfolioDailyReturns) = 3
  /\ output[1][1].year = 2024
  /\ output[1][1].portfolioReturn = <<-9, 20>>
  /\ output[1][2].year = 2025
  /\ output[1][2].benchmarkReturn = Zero
  /\ output[1][2].portfolioReturn = <<1, 10>>

----------------------------------------------------------------------------
(* C35: the statistics that need roots, and their guards                   *)
(* src/src/lib/calendar.ts, lines 63-91, 149-158 and 197-232               *)

\* A statistic is an exact rational, NaN, or the finite result of a root or a
\* quotient of roots, which is kept as the term it was computed from.
Exact(v) == [kind |-> "exact", value |-> v, of |-> <<>>]

NotANumber == [kind |-> "NaN", value |-> Zero, of |-> <<>>]

Term(kind, args) == [kind |-> kind, value |-> Zero, of |-> args]

\* Date.getTime() of toUtcDate(day) in days: the days from 1970-01-01 to the date
DayNumber(day) ==
  LET y0 == day \div 10000
      m == (day \div 100) % 100
      d == day % 100
      y == IF m <= 2 THEN y0 - 1 ELSE y0
      era == y \div 400
      yoe == y - era * 400
      doy == (153 * (IF m > 2 THEN m - 3 ELSE m + 9) + 2) \div 5 + d - 1
      doe == yoe * 365 + yoe \div 4 - yoe \div 100 + doy
  IN  era * 146097 + doe - 719468

\* calculateYearFraction(dates[0], dates[dates.length - 1]): of an empty list both
\* dates are undefined, toUtcDate gives an invalid Date, getTime() is NaN, and
\* NaN <= NaN is false
calculateYearFraction(dates) ==
  IF dates = <<>> THEN NotANumber
  ELSE LET start == DayNumber(dates[1])
           end == DayNumber(dates[Len(dates)])
       IN  IF end <= start THEN Exact(Zero)
           ELSE Exact(RDiv(R(4 * (end - start)), R(1461)))

\* a comparison with NaN is false
calculateCagr(startValue, endValue, years) ==
  IF \/ RLe(startValue, Zero)
     \/ RLe(endValue, Zero)
     \/ (years.kind = "exact" /\ RLe(years.value, Zero))
  THEN Exact(Zero)
  ELSE IF years.kind = "NaN" THEN NotANumber
  ELSE Term("pow - 1", <<RDiv(endValue, startValue), RDiv(One, years.value)>>)

Variance(dailyReturns) ==
  LET n == Len(dailyReturns)
      mean == RDiv(RSum(dailyReturns), R(n))
  IN  RDiv(RSum([i \in DOMAIN dailyReturns |->
                   RMul(RSub(dailyReturns[i], mean), RSub(dailyReturns[i], mean))]),
           R(n - 1))

calculateAnnualizedVolatility(dailyReturns) ==
  IF Len(dailyReturns) < 2 THEN Exact(Zero)
  ELSE IF Variance(dailyReturns) = Zero THEN Exact(Zero)
  ELSE Term("sqrt * sqrt", <<Variance(dailyReturns), R(TRADING_DAYS_PER_YEAR)>>)

calculateSharpe(annualReturn, annualizedVolatility, riskFreeRate) ==
  IF annualizedVolatility = Exact(Zero) THEN Exact(Zero)
  ELSE IF annualReturn.kind = "NaN" THEN NotANumber
  ELSE Term("quotient", <<annualReturn, riskFreeRate, annualizedVolatility>>)

\* calculatePerformanceMetrics with every field of PerformanceMetrics
PerformanceMetrics(dates, values, netFlows, invested, riskFreeRate) ==
  LET exact == calculatePerformanceMetrics(values, netFlows, invested)
      years == calculateYearFraction(dates)
      dailyReturns == calculateTimeWeightedDailyReturns(values, netFlows)
      growthCagr == calculateCagr(One, RAdd(One, exact.twrCumulative), years)
      annualizedVolatility == calculateAnnualizedVolatility(dailyReturns)
  IN  [endingValue |-> Exact(exact.endingValue),
       totalInvested |-> Exact(invested),
       gains |-> Exact(exact.gains),
       cumulativeReturn |-> Exact(exact.cumulativeReturn),
       contributionAdjustedCagr |-> calculateCagr(invested, exact.endingValue, years),
       growthCagr |-> growthCagr,
       maxDrawdown |-> Exact(exact.maxDrawdown),
       annualizedVolatility |-> annualizedVolatility,
       sharpeRatio |-> calculateSharpe(growthCagr, annualizedVolatility, riskFreeRate)]

MaxMetricsLen == 3

MetricsDates == {20240328, 20240401}

MetricsValues == {Zero, R(100), R(110)}

MetricsFlows == {Zero, R(100)}

\* a series of up to MaxMetricsLen points: dates that do not go back, a value and a
\* flow for each
InitMetrics ==
  /\ \E n \in 0..MaxMetricsLen :
       input \in [dates : {s \in [1..n -> MetricsDates] :
                             \A i \in 1..(n - 1) : s[i] <= s[i + 1]},
                  values : [1..n -> MetricsValues],
                  netFlows : [1..n -> MetricsFlows],
                  totalInvested : {Zero, R(100)},
                  riskFreeRate : {DefaultRiskFreeRate}]
  /\ output = NotCalled
  /\ RouteIdle
  /\ EngineIdle
  /\ SourceIdle
  /\ EtfIdle
  /\ DashboardIdle

CallCalculatePerformanceMetrics ==
  /\ output = NotCalled
  /\ output' = <<PerformanceMetrics(input.dates, input.values, input.netFlows,
                                    input.totalInvested, input.riskFreeRate)>>
  /\ UNCHANGED <<dashboardVars, etfVars, sourceVars, input, routeVars, engineVars>>

NextMetrics == CallCalculatePerformanceMetrics

SpecMetrics == InitMetrics /\ [][NextMetrics]_vars

MetricFields ==
  {"endingValue", "totalInvested", "gains", "cumulativeReturn", "contributionAdjustedCagr",
   "growthCagr", "maxDrawdown", "annualizedVolatility", "sharpeRatio"}

\* every field is a number
C35_EveryFieldIsANumber ==
  output # NotCalled => \A f \in MetricFields : output[1][f].kind # "NaN"

\* the guards answer 0
C35_Guards ==
  output # NotCalled =>
    LET r == output[1]
        n == Len(input.values)
        ending == IF n = 0 THEN Zero ELSE input.values[n]
        span == IF n = 0 THEN 0 ELSE DayNumber(input.dates[n]) - DayNumber(input.dates[1])
        returns == calculateTimeWeightedDailyReturns(input.values, input.netFlows)
    IN  /\ (n > 0 /\ (RLe(input.totalInvested, Zero) \/ RLe(ending, Zero) \/ span <= 0)) =>
             r.contributionAdjustedCagr = Exact(Zero)
        /\ (n > 0 /\ span <= 0) => r.growthCagr = Exact(Zero)
        /\ (n > 0 /\ span > 0 /\ RGt(input.totalInvested, Zero) /\ RGt(ending, Zero)) =>
             r.contributionAdjustedCagr =
               Term("pow - 1", <<RDiv(ending, input.totalInvested), <<1461, 4 * span>>>>)
        /\ n <= 2 => r.annualizedVolatility = Exact(Zero)
        /\ r.annualizedVolatility = Exact(Zero) => r.sharpeRatio = Exact(Zero)
        /\ (n > 2 /\ \E i \in DOMAIN returns : returns[i] # returns[1]) =>
             /\ r.annualizedVolatility.kind = "sqrt * sqrt"
             /\ RGt(r.annualizedVolatility.of[1], Zero)
             /\ r.sharpeRatio.kind = "quotient"
        /\ RLe(input.totalInvested, Zero) => r.cumulativeReturn = Exact(Zero)
        /\ (\A i \in 1..n : input.values[i] = Zero) => r.maxDrawdown = Exact(Zero)
        /\ r.endingValue = Exact(ending)
        /\ r.gains = Exact(RSub(ending, input.totalInvested))

\* C35: for every series of non-negative values, the empty, the single-point, the
\* flat and the all-zero series included, and for totalInvested <= 0, equal first
\* and last dates and zero volatility, calculatePerformanceMetrics returns a value
\* for every field: CAGR 0 when start <= 0, end <= 0 or years <= 0, volatility 0 for
\* fewer than 2 returns, Sharpe 0 when the volatility is <= 0, cumulativeReturn 0
\* when totalInvested <= 0, drawdown 0 while the peak is 0.
C35_AsStated == C35_EveryFieldIsANumber /\ C35_Guards

\* of a series that has a point every field is a number
C35_OfNonEmptySeries ==
  (output # NotCalled /\ input.values # <<>>) => \A f \in MetricFields : output[1][f].kind # "NaN"

\* the growth CAGR of the empty series is NaN
C35_EmptySeries ==
  /\ output # NotCalled
  /\ input.values = <<>>
  /\ input.dates = <<>>
  /\ output[1].growthCagr = NotANumber
  /\ output[1].contributionAdjustedCagr = Exact(Zero)
  /\ output[1].sharpeRatio = Exact(Zero)

----------------------------------------------------------------------------
(* C36: the benchmark's daily returns                                      *)

\* the adjusted close of the benchmark at the date of point t of the timeline
BenchmarkAdjustedCloseAt(t) ==
  MapGet(historyMap[toUpperCase(request.benchmarkTicker)], Returning.timeline[t].date).adjustedClose

\* the time-weighted daily returns of the benchmark, as the result is computed from
BenchmarkDailyReturns ==
  calculateTimeWeightedDailyReturns(
    [i \in DOMAIN Returning.timeline |-> Returning.timeline[i].benchmarkValue],
    [i \in DOMAIN Returning.timeline |-> Returning.timeline[i].netFlow])

\* the days the statement is about: a positive benchmark value the day before and
\* positive adjusted closes
Tracked(t) ==
  /\ RGt(Returning.timeline[t - 1].benchmarkValue, Zero)
  /\ RGt(BenchmarkAdjustedCloseAt(t - 1), Zero)
  /\ RGt(BenchmarkAdjustedCloseAt(t), Zero)

\* C36: for every day t >= 1 with a positive benchmark value on day t - 1 and
\* positive adjusted closes, the benchmark's time-weighted daily return is
\* adjClose[t] / adjClose[t-1] - 1, whatever the initial amount and the salary flows
\* are and whenever they come.
C36_BenchmarkTracksItsPrice ==
  HasReturned =>
    \A t \in 2..Len(Returning.timeline) :
      Tracked(t) =>
        BenchmarkDailyReturns[t - 1] =
          RSub(RDiv(BenchmarkAdjustedCloseAt(t), BenchmarkAdjustedCloseAt(t - 1)), One)

\* SPY, the benchmark, went from an adjusted close of 9 to 19 on a day on which a
\* salary bought more of it
C36_Witness ==
  /\ HasReturned
  /\ env.market = UnevenMarket
  /\ toUpperCase(request.benchmarkTicker) = SPY
  /\ RGt(request.initialAmount, Zero)
  /\ RGt(SalaryNet, Zero)
  /\ Tracked(2)
  /\ RGt(Returning.timeline[2].netFlow, Zero)
  /\ BenchmarkDailyReturns[1] = <<10, 9>>

----------------------------------------------------------------------------
(* C37: a request the schema accepts has an allocation of positive weight   *)

\* POST handed the parsed body to runSimulation
Accepted == env.caller = "POST" /\ request # <<>>

\* the promise of runSimulation settled with a result, with the rejection of a
\* getHistoricalSeries call, or with the error of line 668
ResultOrDataError ==
  \/ outcome[1].ok
  \/ ~outcome[1].ok /\ outcome[1].class \in env.failures
                    /\ outcome[1].message = "upstream failure"
  \/ ~outcome[1].ok /\ outcome[1].class = "Error"
                    /\ outcome[1].message = InsufficientMessage

\* C37: whenever POST has accepted a body, the request has an allocation of positive
\* weight, runSimulation does not throw the configuration error of line 641 and POST
\* does not answer with it: the run settles with a result, a failure of the market
\* data, or the insufficient-data error
C37_NoConfigurationError ==
  Accepted =>
    /\ Len(Allocations(request)) > 0
    /\ outcome # <<>> => /\ ResultOrDataError
                         /\ outcome[1].ok \/ outcome[1].message # ConfigurationMessage
    /\ response # <<>> => response[1].error # ConfigurationMessage

\* an accepted request with an allocation of weight 0 beside one of weight 0.05
\* < 0.06 in total has been answered with a result
C37_Witness ==
  /\ Accepted
  /\ pc = "responded"
  /\ \E i \in DOMAIN request.allocations : request.allocations[i].targetWeight = Zero
  /\ Len(Allocations(request)) < Len(request.allocations)
  /\ response[1].status = 200

\* an accepted request whose weights sum to 0.06 has been answered with the
\* insufficient-data error
C37_SmallWeights ==
  /\ Accepted
  /\ pc = "responded"
  /\ TotalWeight(request.allocations) = <<3, 50>>
  /\ response[1].error = InsufficientMessage

\* the same of the schema alone, over bodies of up to MaxSchemaAllocations allocations
\* with weights in and out of range: an accepted body has an allocation that
\* runSimulation keeps
C37_OfEveryBody ==
  (output # NotCalled /\ output[1].success) => Len(Allocations(output[1].data)) > 0

----------------------------------------------------------------------------
(* getHistoricalSeries called again and again on the cache of the process  *)

MaxSeriesCalls == 3

\* a payload with prices, one with chart.error, one whose rows hold no usable point
SeriesPayloads ==
  { Payload(TRUE, FALSE, <<Row(20240102, 0, <<<<199, 2>>>>, <<R(100)>>),
                           Row(20240103, 0, <<<<504, 5>>>>, <<R(101)>>)>>),
    Payload(TRUE, TRUE, <<>>),
    Payload(TRUE, FALSE, <<Row(20240102, 0, <<>>, <<>>),
                           Row(20240105, 0, <<R(100)>>, <<R(100)>>)>>) }

SeriesTickers == {SPY, <<" ", "s", "p", "y">>}
SeriesEnds == {YahooEnd, 20240104}

SeriesInputs(n) ==
  [ticker : SeriesTickers, startDate : {YahooStart}, endDate : SeriesEnds,
   payload : SeriesPayloads, call : {n}]

\* the time between the end of a call and the next call, in ms
Elapsed == {DEFAULT_CACHE_TTL_MS - 1, DEFAULT_CACHE_TTL_MS}

InitSeries ==
  /\ input \in SeriesInputs(1)
  /\ output = NotCalled
  /\ SourceIdle
  /\ RouteIdle
  /\ EngineIdle
  /\ EtfIdle
  /\ DashboardIdle

\* the next call of getHistoricalSeries, some time after the last one ended
CallAgain ==
  /\ yahooPc \in {"returned", "thrown"}
  /\ input.call < MaxSeriesCalls
  /\ input' \in SeriesInputs(input.call + 1)
  /\ \E ms \in Elapsed : now' = now + ms
  /\ output' = NotCalled
  /\ yahooPc' = "idle"
  /\ attempt' = 0
  /\ lastError' = <<>>
  /\ fetchCalls' = <<>>
  /\ UNCHANGED <<dashboardVars, etfVars, memoryCache, cacheLog, routeVars, engineVars>>

NextSeries ==
  \/ GetHistoricalSeries
  \/ \E result \in {"rejected", "ok"} : Fetch(result)
  \/ Delay
  \/ ReadPayload
  \/ CallAgain

SpecSeries == InitSeries /\ [][NextSeries]_vars

\* what one step of a call does to the cache and to the requests sent
C38_Step ==
  /\ (yahooPc = "idle" /\ yahooPc' # "idle") =>
       IF cacheKey \in DOMAIN cacheLog /\ now - cacheLog[cacheKey].at < 24 * 60 * 60 * 1000
       THEN /\ yahooPc' = "returned"
            /\ output' = Returned(cacheLog[cacheKey].value)
            /\ fetchCalls' = <<>>
            /\ memoryCache' = memoryCache
       ELSE yahooPc' = "fetch"
  /\ (yahooPc = "json" /\ yahooPc' = "returned") =>
       /\ output'[1].ok
       /\ memoryCache' = With(memoryCache, cacheKey,
                              [value |-> output'[1].result,
                               expiresAt |-> now + 24 * 60 * 60 * 1000])
  /\ ~(yahooPc = "json" /\ yahooPc' = "returned") =>
       /\ \A key \in DOMAIN memoryCache' :
            key \in DOMAIN memoryCache /\ memoryCache'[key] = memoryCache[key]
       /\ \A key \in DOMAIN memoryCache \ DOMAIN memoryCache' :
            memoryCache[key].expiresAt <= now
       /\ cacheLog' = cacheLog

\* every entry of the cache is the series a call returned, with its expiry 24 hours
\* after that call
C38_OnlySeries ==
  \A key \in DOMAIN memoryCache :
    /\ key \in DOMAIN cacheLog
    /\ memoryCache[key] = [value |-> cacheLog[key].value,
                           expiresAt |-> cacheLog[key].at + 24 * 60 * 60 * 1000]
    /\ memoryCache[key].value # <<>>

\* C38: a call whose key (ticker trimmed and in upper case, start, end) was stored
\* by a successful call less than 24 hours ago returns that series without a
\* fetch; otherwise it fetches; the cache is written only by a call that returns a
\* series, with that series and 24 hours to live, and a call that fails stores
\* nothing and removes nothing but expired entries
C38_CachesOnlySuccess == [](C38_OnlySeries) /\ [][C38_Step]_vars

\* the second call, for " spy", is answered from the cache 24 hours less 1 ms after
\* the first call stored the series of SPY, and no request was sent
C38_Witness ==
  /\ input.call = 2
  /\ input.ticker = <<" ", "s", "p", "y">>
  /\ yahooPc = "returned"
  /\ fetchCalls = <<>>
  /\ cacheLog[cacheKey].at = 0
  /\ now = DEFAULT_CACHE_TTL_MS - 1
  /\ output = Returned(memoryCache[cacheKey].value)

\* a call 24 hours after the series was stored sends a request
C38_FetchedAfterExpiry ==
  /\ yahooPc = "fetch"
  /\ cacheKey \in DOMAIN cacheLog
  /\ now - cacheLog[cacheKey].at = DEFAULT_CACHE_TTL_MS
  /\ cacheKey \notin DOMAIN memoryCache

\* the first two calls failed and stored nothing, and the third sends a request
C38_FetchedAfterFailure ==
  /\ input.call = 3
  /\ cacheLog = EmptyMap
  /\ memoryCache = EmptyMap
  /\ yahooPc = "fetch"

----------------------------------------------------------------------------
(* C39: comparison portfolios added and removed while a run is in flight   *)

\* the dashboard as mounted, with every handler followed by a render
InitInterleaved == Mounted(<<createCompareTarget(defaultComparePortfolio)>>, 1)

NextInterleaved ==
  \/ addCompareTarget
  \/ removeActiveCompareTarget
  \/ \E direction \in {"prev", "next"} : moveCompareIndex(direction)
  \/ runSimulationClick
  \/ \E run \in DOMAIN inFlight, answer \in -1..MaxCalls : runSimulationSettle(run, answer)
  \/ Render

SpecInterleaved == InitInterleaved /\ [][NextInterleaved]_vars

\* the first half of C39
C39_NoMoreResultsThanTargets == Len(compareResults) <= Len(compareTargets)

\* the responses of a run arrive: each result stored at index i comes from the
\* request built, when the run started, for the portfolio that is at index i now
C39_Arrival ==
  \A run \in DOMAIN inFlight :
    (inFlight' = FilterOutIndex(inFlight, run - 1) /\ compareResults' # compareResults) =>
      \A i \in DOMAIN compareResults' :
        /\ compareResults'[i] = ResultOf(inFlight[run].first, i + 1)
        /\ i \in DOMAIN compareTargets'
        /\ compareTargets'[i] = inFlight[run].compareTargets[i]

\* C39: compareResults never has more entries than compareTargets, and the results
\* of a run are stored at the indexes of the portfolios they were requested for,
\* whatever the user adds or removes while the run is in flight
C39_AsStated == [](C39_NoMoreResultsThanTargets) /\ [][C39_Arrival]_vars

\* the result of the removed first portfolio is shown beside the second one
C39_ResultOfRemovedShown ==
  /\ Len(compareTargets) = 1
  /\ Len(compareResults) = 2
  /\ compareTargets[1].portfolio = rendered.basePortfolio
  /\ activeCompareIndex = 0
  /\ compareResults[activeCompareIndex + 1] = ResultOf(1, 2)
  /\ inFlight = <<>>

\* the second half of C39 alone, which fails on the same behaviours
C39_ArrivalAlone == [][C39_Arrival]_vars

----------------------------------------------------------------------------
(* The arithmetic of a JavaScript number: IEEE 754 binary64                *)

\* natural numbers of any size as their limbs of 15 bits, lowest first, the
\* highest not 0; <<>> is 0
Limb == 2^15

RECURSIVE BigOf(_)
BigOf(n) == IF n = 0 THEN <<>> ELSE <<n % Limb>> \o BigOf(n \div Limb)

RECURSIVE BigTrim(_)
BigTrim(a) ==
  IF a = <<>> THEN <<>>
  ELSE IF a[Len(a)] = 0 THEN BigTrim(SubSeq(a, 1, Len(a) - 1)) ELSE a

Rest(a) == IF a = <<>> THEN <<>> ELSE Tail(a)

Lowest(a) == IF a = <<>> THEN 0 ELSE Head(a)

RECURSIVE BigAddCarry(_, _, _)
BigAddCarry(a, b, carry) ==
  IF a = <<>> /\ b = <<>> THEN (IF carry = 0 THEN <<>> ELSE <<carry>>)
  ELSE LET x == Lowest(a) + Lowest(b) + carry
       IN  <<x % Limb>> \o BigAddCarry(Rest(a), Rest(b), x \div Limb)

BigAdd(a, b) == BigAddCarry(a, b, 0)

RECURSIVE BigSubBorrow(_, _, _)
BigSubBorrow(a, b, borrow) ==
  IF a = <<>> THEN <<>>
  ELSE LET x == Head(a) - Lowest(b) - borrow
       IN  <<(x + Limb) % Limb>> \o BigSubBorrow(Tail(a), Rest(b), IF x < 0 THEN 1 ELSE 0)

\* a - b for a >= b
BigSub(a, b) == BigTrim(BigSubBorrow(a, b, 0))

RECURSIVE BigCmpFromTop(_, _)
BigCmpFromTop(a, b) ==
  IF a = <<>> THEN 0
  ELSE IF a[Len(a)] < b[Len(b)] THEN -1
  ELSE IF a[Len(a)] > b[Len(b)] THEN 1
  ELSE BigCmpFromTop(SubSeq(a, 1, Len(a) - 1), SubSeq(b, 1, Len(b) - 1))

\* -1, 0 or 1 as a is below, equal to or above b
BigCmp(a, b) ==
  IF Len(a) < Len(b) THEN -1
  ELSE IF Len(a) > Len(b) THEN 1
  ELSE BigCmpFromTop(a, b)

\* a x k + carry for 0 <= k, carry < 2^15
RECURSIVE BigTimesLimb(_, _, _)
BigTimesLimb(a, k, carry) ==
  IF a = <<>> THEN (IF carry = 0 THEN <<>> ELSE <<carry>>)
  ELSE LET x == Head(a) * k + carry
       IN  <<x % Limb>> \o BigTimesLimb(Tail(a), k, x \div Limb)

RECURSIVE BigMul(_, _)
BigMul(a, b) ==
  IF a = <<>> \/ b = <<>> THEN <<>>
  ELSE BigTrim(BigAdd(BigTimesLimb(a, Head(b), 0),
                      IF Tail(b) = <<>> THEN <<>> ELSE <<0>> \o BigMul(a, Tail(b))))

\* a x 2^k
BigShl(a, k) ==
  IF a = <<>> THEN <<>>
  ELSE [i \in 1..(k \div 15) |-> 0] \o BigTimesLimb(a, 2^(k % 15), 0)

\* floor(a / 2^k)
BigShr(a, k) ==
  LET s == k % 15
      r == IF k \div 15 >= Len(a) THEN <<>> ELSE SubSeq(a, k \div 15 + 1, Len(a))
  IN  BigTrim([i \in 1..Len(r) |->
                 (r[i] \div 2^s) + (IF i < Len(r) THEN (r[i + 1] % 2^s) * 2^(15 - s) ELSE 0)])

\* a mod 2^k
BigLow(a, k) == BigSub(a, BigShl(BigShr(a, k), k))

RECURSIVE SmallBitLen(_)
SmallBitLen(n) == IF n = 0 THEN 0 ELSE 1 + SmallBitLen(n \div 2)

\* the number of bits of a
BitLen(a) == IF a = <<>> THEN 0 ELSE (Len(a) - 1) * 15 + SmallBitLen(a[Len(a)])

\* bit i of a, bit 0 the lowest
Bit(a, i) == IF i \div 15 >= Len(a) THEN 0 ELSE (a[i \div 15 + 1] \div 2^(i % 15)) % 2

Least(a, b) == IF a < b THEN a ELSE b

\* the limb of a at position i, 0 above its top
LimbAt(a, i) == IF i \in DOMAIN a THEN a[i] ELSE 0

\* a x k for 0 <= k <= 2^15
BigTimes(a, k) == BigTrim(BigTimesLimb(a, k, 0))

\* floor(cur / d) for cur < 2^15 x d and a d whose top limb is 2^14 or more: the two
\* top limbs of cur over the top limb of d are at most 3 above it
QuotientLimb(cur, d) ==
  LET top == LimbAt(cur, Len(d) + 1) * Limb + LimbAt(cur, Len(d))
  IN  CHOOSE q \in (top \div (d[Len(d)] + 1))..Least(top \div d[Len(d)], Limb - 1) :
        /\ BigCmp(BigTimes(d, q), cur) <= 0
        /\ BigCmp(cur, BigTimes(d, q + 1)) < 0

\* long division, limb by limb from the top, by a d whose top limb is 2^14 or more
RECURSIVE BigDivNormal(_, _)
BigDivNormal(n, d) ==
  IF n = <<>> THEN [q |-> <<>>, r |-> <<>>]
  ELSE LET high == BigDivNormal(Tail(n), d)
           cur == BigTrim(<<Head(n)>> \o high.r)
           q == QuotientLimb(cur, d)
       IN  [q |-> BigTrim(<<q>> \o high.q), r |-> BigSub(cur, BigTimes(d, q))]

\* floor(n / d) and n mod d for d > 0
BigDivMod(n, d) ==
  LET s == 15 - SmallBitLen(d[Len(d)])
      scaled == BigDivNormal(BigShl(n, s), BigShl(d, s))
  IN  [q |-> scaled.q, r |-> BigShr(scaled.r, s)]

RECURSIVE SmallTrailingZeros(_)
SmallTrailingZeros(n) == IF n % 2 = 1 THEN 0 ELSE 1 + SmallTrailingZeros(n \div 2)

\* a finite binary64: (-1)^neg x m x 2^e with m odd and below 2^53, or m = 0
RECURSIVE Binary64(_, _, _)
Binary64(neg, m, e) ==
  IF m = <<>> THEN [neg |-> FALSE, m |-> <<>>, e |-> 0]
  ELSE IF Head(m) = 0 THEN Binary64(neg, Tail(m), e + 15)
  ELSE [neg |-> neg, m |-> BigShr(m, SmallTrailingZeros(Head(m))),
        e |-> e + SmallTrailingZeros(Head(m))]

\* the binary64 nearest to (-1)^neg x (m + f) x 2^e, where 0 <= f < 1 and f > 0
\* iff sticky; a tie goes to the even mantissa.  No value of a run is near the
\* subnormal range or the overflow threshold.
RoundToBinary64(neg, m, e, sticky) ==
  IF BitLen(m) <= 53 THEN Binary64(neg, m, e)
  ELSE LET cut == BitLen(m) - 53
           kept == BigShr(m, cut)
           c == BigCmp(BigLow(m, cut), BigShl(<<1>>, cut - 1))
           up == c > 0 \/ (c = 0 /\ (sticky \/ Bit(kept, 0) = 1))
       IN  Binary64(neg, IF up THEN BigAdd(kept, <<1>>) ELSE kept, e + cut)

\* the number n of a JSON body, an integer below 2^31
Number(n) == Binary64(n < 0, BigOf(IF n < 0 THEN -n ELSE n), 0)

\* x + y
Plus(x, y) ==
  LET e == Least(x.e, y.e)
      a == BigShl(x.m, x.e - e)
      b == BigShl(y.m, y.e - e)
  IN  IF x.neg = y.neg THEN RoundToBinary64(x.neg, BigAdd(a, b), e, FALSE)
      ELSE IF BigCmp(a, b) >= 0 THEN RoundToBinary64(x.neg, BigSub(a, b), e, FALSE)
      ELSE RoundToBinary64(y.neg, BigSub(b, a), e, FALSE)

\* x - y
Minus(x, y) == Plus(x, [y EXCEPT !.neg = (y.m # <<>> /\ ~y.neg)])

\* x * y
Times(x, y) ==
  RoundToBinary64(x.neg # y.neg, BigMul(x.m, y.m), x.e + y.e, FALSE)

\* x / y for y # 0: the quotient of the mantissas to 55 bits or more, and whether
\* a remainder is left
Over(x, y) ==
  IF x.m = <<>> THEN x
  ELSE LET k == IF 55 + BitLen(y.m) > BitLen(x.m) THEN 55 + BitLen(y.m) - BitLen(x.m) ELSE 0
           d == BigDivMod(BigShl(x.m, k), y.m)
       IN  RoundToBinary64(x.neg # y.neg, d.q, x.e - k - y.e, d.r # <<>>)

\* x < 0, x > 0
Negative(x) == x.m # <<>> /\ x.neg
Positive(x) == x.m # <<>> /\ ~x.neg

\* x > y, x <= y
Greater(x, y) == Positive(Minus(x, y))
AtMost(x, y) == ~Greater(x, y)

\* Math.min(x, y), Math.max(x, y)
MathMin(x, y) == IF Greater(x, y) THEN y ELSE x
MathMax(x, y) == IF Greater(y, x) THEN y ELSE x

----------------------------------------------------------------------------
(* C32: the purchase of the first day in the numbers of the program        *)

\* normalizeAllocations(request.allocations).filter(weight > 0): the weights
NumberWeights(targetWeights) ==
  SelectSeq([i \in DOMAIN targetWeights |-> Over(Number(targetWeights[i]), Number(100))],
            Positive)

\* reduce((sum, item) => sum + item, 0)
RECURSIVE NumberSum(_)
NumberSum(items) ==
  IF items = <<>> THEN Number(0)
  ELSE Plus(NumberSum(SubSeq(items, 1, Len(items) - 1)), items[Len(items)])

\* computeDesiredStockBudget
NumberBudget(portfolioValue, totalStockWeight, minimumCashReserve) ==
  IF AtMost(portfolioValue, Number(0)) \/ AtMost(totalStockWeight, Number(0)) THEN Number(0)
  ELSE LET cashFloor == MathMin(minimumCashReserve, portfolioValue)
           desiredStock == Times(portfolioValue, totalStockWeight)
           maxStockWithFloor == MathMax(Number(0), Minus(portfolioValue, cashFloor))
       IN  MathMax(Number(0), MathMin(desiredStock, maxStockWithFloor))

\* investByRelativeStockWeights: the allocationAmount of every allocation
AllocationAmounts(amount, weights) ==
  [i \in DOMAIN weights |-> Times(amount, Over(weights[i], NumberSum(weights)))]

\* runSimulation, lines 714-735, for a request with an initial amount and closes above
\* 0: the cash before the purchase, what investByRelativeStockWeights returns, the
\* shares bought and the cash left
FirstPurchase(req) ==
  LET weights == NumberWeights(req.targetWeights)
      available == Plus(Number(0), Number(req.initialAmount))
      initialStockBudget ==
        NumberBudget(available, NumberSum(weights), Number(req.minimumCashReserve))
      amounts == IF Positive(initialStockBudget)
                 THEN AllocationAmounts(initialStockBudget, weights)
                 ELSE <<>>
      spentInitial == NumberSum(amounts)
  IN  [available |-> available,
       spentInitial |-> spentInitial,
       holdings |-> [i \in DOMAIN amounts |-> Over(amounts[i], Number(req.closes[i]))],
       cashValue |-> Minus(available, spentInitial)]

\* two allocations of 5%, 10%, ... of the portfolio, 100% together
PercentSplits == {<<5 * k, 100 - 5 * k>> : k \in 1..19}

InitNumbers ==
  /\ input \in [targetWeights : PercentSplits,
                initialAmount : {3, 7, 1000, 10000000, 12345678},
                minimumCashReserve : {0, 500000},
                closes : {<<100, 200>>}]
  /\ output = NotCalled
  /\ RouteIdle
  /\ EngineIdle
  /\ SourceIdle
  /\ EtfIdle
  /\ DashboardIdle

CallFirstPurchase ==
  /\ output = NotCalled
  /\ output' = <<FirstPurchase(input)>>
  /\ UNCHANGED <<dashboardVars, etfVars, sourceVars, input, routeVars, engineVars>>

NextNumbers == CallFirstPurchase

SpecNumbers == InitNumbers /\ [][NextNumbers]_vars

\* C32: after the purchase every share count and the cash are >= 0, and the
\* purchase has spent no more than the cash there was
C32_AsStated ==
  output # NotCalled =>
    /\ \A i \in DOMAIN output[1].holdings : ~Negative(output[1].holdings[i])
    /\ ~Negative(output[1].cashValue)
    /\ AtMost(output[1].spentInitial, output[1].available)

\* 10% and 90% of an initial amount of 12,345,678 with no reserve: the two amounts
\* add up to 12345678.000000002 and the cash is -2^-29
C32_CashBelowZero ==
  /\ output # NotCalled
  /\ input.targetWeights = <<10, 90>>
  /\ input.initialAmount = 12345678
  /\ input.minimumCashReserve = 0
  /\ Greater(output[1].spentInitial, output[1].available)
  /\ output[1].cashValue = [neg |-> TRUE, m |-> <<1>>, e |-> -29]

\* with a reserve the purchase stays below the cash there is
C32_WithReserve ==
  (output # NotCalled /\ input.minimumCashReserve > 0) =>
    /\ ~Negative(output[1].cashValue)
    /\ AtMost(output[1].spentInitial, output[1].available)
====
